---- MODULE Spec2Model ----
(***************************************************************************)
(* Model of the promote broadcast engine: the anti-spam Scheduler, the     *)
(* Sender pipeline with its retry wrapper, the groups/logs tables of the   *)
(* Store, and the Auto-Join engine's ProcessInviteCode.                    *)
(*                                                                         *)
(* Time is a UTC clock in minutes.  Characters are one-letter strings and  *)
(* texts are sequences of characters, so that substring tests and          *)
(* trimming are computed rather than assumed.                              *)
(***************************************************************************)
EXTENDS Integers, Sequences, FiniteSets, TLC

VARIABLES
    clock,      \* wall clock, minutes since a UTC midnight
    cfg,        \* Scheduler fields set by scheduler.New: alwaysOn, cooldownHr, riskThreshold
    accounts,   \* accounts table: id -> [enabled, daily_limit]
    paired,     \* per account: the session handle carries a device id (Store.ID != nil)
    groups,     \* groups table: id -> [account_id, enabled, risk_score, last_sent_at]
    templates,  \* the templates rows with enabled = 1 (their MessageContent)
    logs,       \* logs table, in insertion (id) order
    pc,         \* position of the Scheduler goroutine
    queue,      \* processOneSend: the shuffled accounts not yet visited in this tick
    cur,        \* the Sender invocation in progress or just finished
    tickSends,  \* (account, group) pairs the Sender was invoked for in the current tick
    lastTick,   \* what the latest tick did: "none", "skipped" or "ran"
    doneAt,     \* per group: completion time of the last fully delivered scheduled send
    rt,         \* one withRetry call: position, fn's scripted results, attempt, calls, backoff
    now,        \* wall clock of the Auto-Join engine, seconds
    settings,   \* auto_join_settings table: account -> row, or NULL when there is no row
    autoJoinLogs, \* auto_join_logs table, rows in insertion order
    lastJoinTime, \* AutoJoiner.lastJoinTime: account -> NULL (no entry) or <<t>>
    procs,      \* running ProcessInviteCode invocations: position, arguments, locals
    joins,      \* history: successful JoinGroupWithLink calls, <<account, code, time>>
    crashed,    \* the Go runtime aborted the process
    accountIds, \* ids that have a row in the accounts table
    groupIds,   \* ids that have a row in the groups table
    BaseDSN,    \* Manager.BaseDSN
    Clients,    \* Manager.Clients: account -> NULL or the handle (container, device, connected)
    Containers, \* Manager.Containers: account -> NULL or the DSN the container was opened with
    deviceStore, \* devices saved by pairing, in insertion order: database file and owner
    pairingMu,  \* Manager.pairingMu: "" or the thread that holds it
    pairingActive, \* Manager.pairingActive
    connectStarts, \* history: background Connect goroutines started per account
    threads,    \* calls into the Manager that are running: position, account, locals
    deleteDone, \* history: accounts whose delete-account operation has completed
    acctStatus, \* accounts.status per account
    acctMsisdn, \* accounts.msisdn per account
    lastPair,   \* the latest pair-by-number request: account, error, HTTP status, row before
    running,    \* Scheduler.running
    stopClosed, \* Scheduler.stop has been closed
    ctxDone,    \* the context handed to Start has been cancelled
    loops,      \* goroutines inside Scheduler.loop that still take ticks
    fltArgs,    \* one Filter.ShouldJoin call: the filter and the arguments
    fltRet,     \* its result: "none" before the call, "" for accept, else the reason
    fnArgs,     \* one call of a function of the program under observation: its arguments
    fnRet,      \* its result, NoResult before the call
    pending     \* per handler: the inbound message whose links HandleMessage is going through

schedVars == <<clock, cfg, accounts, paired, groups, templates, logs, pc, queue,
               cur, tickSends, lastTick, doneAt>>

joinVars == <<now, settings, autoJoinLogs, lastJoinTime, procs, joins, crashed>>

storeVars == <<accountIds, groupIds>>

waVars == <<BaseDSN, Clients, Containers, deviceStore, pairingMu, pairingActive,
            connectStarts, threads, deleteDone>>

pairVars == <<acctStatus, acctMsisdn, lastPair>>

loopVars == <<running, stopClosed, ctxDone, loops>>

filterVars == <<fltArgs, fltRet>>

callVars == <<fnArgs, fnRet>>

restVars == <<pending>>

moreVars == <<pairVars, loopVars, filterVars, callVars, restVars>>

nonSched == <<rt, joinVars, storeVars, waVars, moreVars>>

vars == <<schedVars, nonSched>>

-----------------------------------------------------------------------------
(* Bounds of the model *)

MaxClock == 2310
ClockStep == 480
StartClock == 1350
MaxLogs == 3
MaxOrderLogs == 7
MaxCalls == 4
MaxNow == 3
MaxStoreLogs == 2
MaxCfgLogs == 4

MaxPairCalls == 3

MaxLoops == 2

MaxLoopLogs == 2

MaxJoinLimit == 2

MaxPieces == 6
MaxTemplatePieces == 3

Accounts == {"a1", "a2"}
Groups == {"g1", "g2"}
OwnerOf == [g \in Groups |-> IF g = "g1" THEN "a1" ELSE "a2"]
DailyLimits == {1, 2}

\* SQL NULL of a nullable timestamp column; a value t is stored as <<t>>
NULL == <<>>

-----------------------------------------------------------------------------
(* Program constants *)

maxAttempts == 3
baseBackoff == 2000
maxBackoff == 20000
jitterPct == 20
minInterval == 3
SecondsPerDay == 86400
DefaultJoinDailyLimit == 20
MinCodeLen == 10
MaxCodeLen == 30
riskThreshold == 3
DefaultRiskThreshold == 3
DefaultCooldownHr == 48
DefaultDailyLimit == 100
WIBOffsetMin == 420
MinutesPerDay == 1440
windows == << <<45, 150>>, <<180, 330>>, <<1290, 1410>> >>

-----------------------------------------------------------------------------
(* Texts *)

IsSpace(c) == c \in {" "}

RECURSIVE TrimLeft(_)
TrimLeft(s) ==
    IF s = <<>> THEN <<>>
    ELSE IF IsSpace(Head(s)) THEN TrimLeft(Tail(s)) ELSE s

RECURSIVE TrimRight(_)
TrimRight(s) ==
    IF s = <<>> THEN <<>>
    ELSE IF IsSpace(s[Len(s)]) THEN TrimRight(SubSeq(s, 1, Len(s) - 1)) ELSE s

TrimSpace(s) == TrimRight(TrimLeft(s))

UpperLetters == <<"A", "B", "C", "D", "E", "F", "G", "H", "I", "J", "K", "L", "M",
                  "N", "O", "P", "Q", "R", "S", "T", "U", "V", "W", "X", "Y", "Z">>
LowerLetters == <<"a", "b", "c", "d", "e", "f", "g", "h", "i", "j", "k", "l", "m",
                  "n", "o", "p", "q", "r", "s", "t", "u", "v", "w", "x", "y", "z">>

ToLowerChar(c) ==
    IF \E i \in 1..Len(UpperLetters) : UpperLetters[i] = c
       THEN LowerLetters[CHOOSE i \in 1..Len(UpperLetters) : UpperLetters[i] = c]
       ELSE c

ToLower(s) == [i \in 1..Len(s) |-> ToLowerChar(s[i])]

Contains(s, sub) ==
    \E i \in 1..(Len(s) - Len(sub) + 1) : SubSeq(s, i, i + Len(sub) - 1) = sub

DigitChars == <<"0", "1", "2", "3", "4", "5", "6", "7", "8", "9">>

RECURSIVE Itoa(_)
Itoa(n) == IF n < 10 THEN <<DigitChars[n + 1]>>
           ELSE Itoa(n \div 10) \o <<DigitChars[(n % 10) + 1]>>

-----------------------------------------------------------------------------
(* Sender: message content and the order of its parts *)

NoContent ==
    [TextOnly |-> <<>>, ImageURLs |-> <<>>, VideoURLs |-> <<>>,
     AudioURLs |-> <<>>, StickerURLs |-> <<>>, DocURLs |-> <<>>]

TplText == [NoContent EXCEPT !.TextOnly = <<"h", "i">>]
TplTextImage == [NoContent EXCEPT !.TextOnly = <<"h", "i">>, !.ImageURLs = <<"i1">>]
TplBlankMedia ==
    [NoContent EXCEPT !.TextOnly = <<" ">>, !.VideoURLs = <<"v1">>, !.DocURLs = <<"d1">>]

TplFull ==
    [TextOnly |-> <<" ", "h", "i">>, ImageURLs |-> <<"i1", "i2">>, VideoURLs |-> <<"v1">>,
     AudioURLs |-> <<"u1">>, StickerURLs |-> <<"s1">>, DocURLs |-> <<"d1">>]

TplFullBlank == [TplFull EXCEPT !.TextOnly = <<" ", " ">>]

TemplateChoices == { {}, {TplTextImage}, {TplText, TplBlankMedia} }

PartsOfKind(kind, urls) ==
    [i \in 1..Len(urls) |-> [kind |-> kind, url |-> urls[i], idx |-> i]]

\* videos handed over before the images
PartsOf_VideosFirst(content) ==
    (IF TrimSpace(content.TextOnly) # <<>>
        THEN << [kind |-> "text", url |-> "", idx |-> 1] >>
        ELSE << >>)
    \o PartsOfKind("video", content.VideoURLs)
    \o PartsOfKind("image", content.ImageURLs)
    \o PartsOfKind("audio", content.AudioURLs)
    \o PartsOfKind("sticker", content.StickerURLs)
    \o PartsOfKind("doc", content.DocURLs)

PartsOf(content) ==
    (IF TrimSpace(content.TextOnly) # <<>>
        THEN << [kind |-> "text", url |-> "", idx |-> 1] >>
        ELSE << >>)
    \o PartsOfKind("image", content.ImageURLs)
    \o PartsOfKind("video", content.VideoURLs)
    \o PartsOfKind("audio", content.AudioURLs)
    \o PartsOfKind("sticker", content.StickerURLs)
    \o PartsOfKind("doc", content.DocURLs)

-----------------------------------------------------------------------------
(* Store: queries of the Scheduler *)

UTCDay(t) == t \div MinutesPerDay
WIBDay(t) == (t + WIBOffsetMin) \div MinutesPerDay
WIBMinuteOfDay(t) == (t + WIBOffsetMin) % MinutesPerDay

\* the upper bound of a window is left out
inWindow_UpperExclusive(t) ==
    \/ cfg.alwaysOn
    \/ \E i \in 1..Len(windows) :
          /\ WIBMinuteOfDay(t) >= windows[i][1]
          /\ WIBMinuteOfDay(t) < windows[i][2]

inWindow(t) ==
    \/ cfg.alwaysOn
    \/ \E i \in 1..Len(windows) :
          /\ WIBMinuteOfDay(t) >= windows[i][1]
          /\ WIBMinuteOfDay(t) <= windows[i][2]

listEnabledAccounts == {a \in accountIds : accounts[a].enabled}

countSentTodayForAccount(a) ==
    Cardinality({i \in 1..Len(logs) :
        /\ logs[i].account_id = a
        /\ logs[i].status = "sent"
        /\ UTCDay(logs[i].ts) = UTCDay(clock)})

\* the risk_score condition is left out of the WHERE clause
EligibleGroup_NoRisk(g, a, cooldownHours, threshold) ==
    /\ g \in groupIds
    /\ groups[g].account_id = a
    /\ groups[g].enabled
    /\ \/ groups[g].last_sent_at = NULL
       \/ groups[g].last_sent_at[1] < clock - cooldownHours * 60

EligibleGroup(g, a, cooldownHours, threshold) ==
    /\ g \in groupIds
    /\ groups[g].account_id = a
    /\ groups[g].enabled
    /\ \/ groups[g].last_sent_at = NULL
       \/ groups[g].last_sent_at[1] < clock - cooldownHours * 60
    /\ groups[g].risk_score < threshold

pickOneEligibleGroup(a, cooldownHours, threshold) ==
    {g \in Groups : EligibleGroup(g, a, cooldownHours, threshold)}

EffectiveDailyLimit(d) == IF d <= 0 THEN DefaultDailyLimit ELSE d

-----------------------------------------------------------------------------
(* Store and Sender: writes *)

logResult(a, g, status, preview) ==
    Append(logs, [ts |-> clock, account_id |-> a, group_id |-> g,
                  status |-> status, message_preview |-> preview])

\* the second UPDATE is left out: the score is raised, the group never paused
bumpRiskAndMaybePause_NoPause(g) ==
    [groups EXCEPT ![g].risk_score = @ + 1]

bumpRiskAndMaybePause(g) ==
    LET bumped == [groups EXCEPT ![g].risk_score = @ + 1]
    IN  IF bumped[g].risk_score >= riskThreshold
           THEN [bumped EXCEPT ![g].enabled = FALSE]
           ELSE bumped

ToggleGroup(g, en) ==
    /\ groups' = [groups EXCEPT ![g].enabled = en]
    /\ UNCHANGED <<nonSched, clock, cfg, accounts, paired, templates, logs, pc, queue,
                   cur, tickSends, lastTick, doneAt>>

-----------------------------------------------------------------------------
(* Scheduler *)

NoError == [type |-> "nil", code |-> 0, text |-> <<>>]

NoRetry == [pc |-> "off", script |-> <<>>, attempt |-> 0, calls |-> 0,
            backoff |-> 0, wait |-> 0, ret |-> NoError]

Procs == {"p1", "p2"}

\* p1 runs for the client of account a1, p2 for either account
ClientsOf == [p \in Procs |-> IF p = "p1" THEN {"a1"} ELSE Accounts]

\* dup and called are history: the invocation was made for a code that had a
\* joined row while auto-join was enabled; it has made a protocol call
NoProc == [pc |-> "idle", acc |-> "", code |-> <<>>, sharedBy |-> <<>>, ctx |-> "none",
           joinsToday |-> 0, groupName |-> <<>>, wakeAt |-> 0,
           dup |-> FALSE, called |-> FALSE]

\* an invocation that has returned: its arguments and locals are gone
Returned == [NoProc EXCEPT !.pc = "done"]

\* the Auto-Join engine at rest: no settings rows, no invocation
JoinOff ==
    /\ now = 0
    /\ settings = [a \in Accounts |-> NULL]
    /\ autoJoinLogs = <<>>
    /\ lastJoinTime = [a \in Accounts |-> NULL]
    /\ procs = [p \in Procs |-> NoProc]
    /\ joins = <<>>
    /\ crashed = FALSE

Threads == {"t1", "t2"}

NoThread == [pc |-> "idle", op |-> "", acc |-> "", client |-> NULL]

\* every account and group of the model has its row
StoreFull ==
    /\ accountIds = Accounts
    /\ groupIds = Groups

\* the Manager right after NewManager: empty maps, no call running
WAOff ==
    /\ BaseDSN = <<>>
    /\ Clients = [a \in Accounts |-> NULL]
    /\ Containers = [a \in Accounts |-> NULL]
    /\ deviceStore = <<>>
    /\ pairingMu = ""
    /\ pairingActive = [a \in Accounts |-> FALSE]
    /\ connectStarts = [a \in Accounts |-> 0]
    /\ threads = [t \in Threads |-> NoThread]
    /\ deleteDone = {}

StatusInactive == "inactive"

StatusPairing == "pairing"

StatusOnline == "online"

\* phone numbers a request carries; <<>> is the empty string
MsisdnInputs == {<<>>, <<"6", "2">>, <<"6", "3">>}

\* no pair-by-number request has been answered yet
NoPair == [n |-> 0, acc |-> "", req |-> <<>>, err |-> "", http |-> 0]

\* the account rows as CreateAccount writes them, no pairing request so far
PairOff ==
    /\ acctStatus = [a \in Accounts |-> StatusInactive]
    /\ acctMsisdn = [a \in Accounts |-> <<>>]
    /\ lastPair = NoPair

\* main has called Start once: one loop goroutine, stop open, context live
LoopStarted ==
    /\ running = TRUE
    /\ stopClosed = FALSE
    /\ ctxDone = FALSE
    /\ loops = 1

\* no ShouldJoin call under observation
FilterOff ==
    /\ fltArgs = <<>>
    /\ fltRet = "none"

NoResult == <<>>

\* no function call under observation
CallOff ==
    /\ fnArgs = <<>>
    /\ fnRet = NoResult

\* no inbound message is being handled
NoMessage == [acc |-> "", sender |-> <<>>, text |-> <<>>, found |-> <<>>, codes |-> <<>>]

RestOff ==
    /\ pending = [p \in Procs |-> NoMessage]

MoreOff == PairOff /\ LoopStarted /\ FilterOff /\ CallOff /\ RestOff

NoSend == [acc |-> "", grp |-> "", content |-> NoContent, parts |-> <<>>,
           idx |-> 0, handed |-> <<>>, result |-> "none"]

Shuffles(S) ==
    {q \in [1..Cardinality(S) -> S] : \A i, j \in 1..Cardinality(S) : q[i] = q[j] => i = j}

Init ==
    /\ clock = StartClock
    /\ cfg \in [alwaysOn : BOOLEAN, cooldownHr : {DefaultCooldownHr},
                riskThreshold : {DefaultRiskThreshold}]
    /\ accounts \in {f \in [Accounts -> [enabled : {TRUE}, daily_limit : DailyLimits]] :
                        f["a2"].daily_limit = 2}
    /\ paired \in {p \in [Accounts -> BOOLEAN] : p["a1"]}
    /\ groups = [g \in Groups |->
                   [account_id |-> OwnerOf[g], enabled |-> FALSE,
                    risk_score |-> 0, last_sent_at |-> NULL,
                    name |-> <<>>]]
    /\ templates \in TemplateChoices
    /\ logs = <<>>
    /\ pc = "idle"
    /\ queue = <<>>
    /\ cur = NoSend
    /\ tickSends = <<>>
    /\ lastTick = "none"
    /\ doneAt = [g \in Groups |-> NULL]
    /\ rt = NoRetry
    /\ JoinOff
    /\ StoreFull
    /\ WAOff
    /\ MoreOff

\* loop, case <-tick.C outside every window: the tick is skipped
TickSkip ==
    /\ pc = "idle"
    /\ ~inWindow(clock)
    /\ ~cfg.alwaysOn
    /\ lastTick' = "skipped"
    /\ UNCHANGED <<nonSched, clock, cfg, accounts, paired, groups, templates, logs, pc,
                   queue, cur, tickSends, doneAt>>

\* loop, case <-tick.C: processOneSend lists and shuffles the enabled accounts
TickBegin(cap) ==
    /\ pc = "idle"
    /\ inWindow(clock) \/ cfg.alwaysOn
    /\ Len(logs) < cap
    /\ \E q \in Shuffles(listEnabledAccounts) :
          /\ queue' = q
          /\ pc' = IF q = <<>> THEN "idle" ELSE "account"
    /\ tickSends' = <<>>
    /\ lastTick' = "ran"
    /\ cur' = NoSend
    /\ UNCHANGED <<nonSched, clock, cfg, accounts, paired, groups, templates, logs, doneAt>>

\* processOneSend: the range loop is over, the tick ends
TickEnd ==
    /\ pc = "account"
    /\ queue = <<>>
    /\ pc' = "idle"
    /\ cur' = NoSend
    /\ tickSends' = <<>>
    /\ UNCHANGED <<nonSched, clock, cfg, accounts, paired, groups, templates, logs,
                   queue, lastTick, doneAt>>

\* processOneSend: one iteration that ends in `continue` before any send
SkipAccount ==
    /\ pc = "account"
    /\ queue # <<>>
    /\ LET a == Head(queue) IN
          \/ ~paired[a]
          \/ countSentTodayForAccount(a) >= EffectiveDailyLimit(accounts[a].daily_limit)
          \/ pickOneEligibleGroup(a, cfg.cooldownHr, cfg.riskThreshold) = {}
    /\ queue' = Tail(queue)
    /\ UNCHANGED <<nonSched, clock, cfg, accounts, paired, groups, templates, logs, pc,
                   cur, tickSends, lastTick, doneAt>>

\* processOneSend: ConnectIfPaired returns a connect error, the account is skipped
SkipAccountConnectError ==
    /\ pc = "account"
    /\ queue # <<>>
    /\ paired[Head(queue)]
    /\ queue' = Tail(queue)
    /\ UNCHANGED <<nonSched, clock, cfg, accounts, paired, groups, templates, logs, pc,
                   cur, tickSends, lastTick, doneAt>>

\* processOneSend steps 1-4: the account passes every check, a group is picked
\* and SendToGroupUsingRandomTemplate is called; the call runs up to the
\* first part (START_CAMPAIGN) or returns at once with an error.
SelectAndSend(cap) ==
    /\ pc = "account"
    /\ queue # <<>>
    /\ LET a == Head(queue) IN
        /\ paired[a]
        /\ countSentTodayForAccount(a) < EffectiveDailyLimit(accounts[a].daily_limit)
        /\ \E g \in pickOneEligibleGroup(a, cfg.cooldownHr, cfg.riskThreshold) :
              /\ tickSends' = Append(tickSends, <<a, g>>)
              /\ \/ \* RandomTemplateContent: no enabled template (sql.ErrNoRows)
                    /\ templates = {}
                    /\ cur' = [NoSend EXCEPT !.acc = a, !.grp = g, !.result = "err"]
                    /\ pc' = "sleep"
                 \/ \* SendToGroupWithSession: cli.Connect() fails, return before any part
                    /\ templates # {}
                    /\ cur' = [NoSend EXCEPT !.acc = a, !.grp = g, !.result = "err"]
                    /\ pc' = "sleep"
                 \/ \E content \in templates :
                    /\ Len(logs) + Len(PartsOf(content)) <= cap
                    /\ cur' = [NoSend EXCEPT !.acc = a, !.grp = g,
                                             !.content = content,
                                             !.parts = PartsOf(content),
                                             !.result = IF PartsOf(content) = <<>>
                                                           THEN "ok" ELSE "none"]
                    /\ pc' = IF PartsOf(content) = <<>> THEN "sleep" ELSE "sending"
    /\ queue' = Tail(queue)
    /\ UNCHANGED <<nonSched, clock, cfg, accounts, paired, groups, templates, logs,
                   lastTick, doneAt>>

\* SendToGroupWithSession: withRetry on the next part returns an error; one
\* failed row, risk bump, return err
SendPartFail ==
    /\ pc = "sending"
    /\ LET p == cur.parts[cur.idx + 1] IN
        /\ logs' = logResult(cur.acc, cur.grp, "failed", <<p.kind, p.url>>)
        /\ groups' = bumpRiskAndMaybePause(cur.grp)
        /\ cur' = [cur EXCEPT !.handed = Append(@, p), !.result = "err"]
    /\ pc' = "sleep"
    /\ UNCHANGED <<nonSched, clock, cfg, accounts, paired, templates, queue, tickSends,
                   lastTick, doneAt>>

\* SendToGroupWithSession: the next part is delivered, one sent row, then the
\* pacing sleep; after the last part the invocation returns nil
SendPartOk ==
    /\ pc = "sending"
    /\ LET p == cur.parts[cur.idx + 1]
           last == cur.idx + 1 = Len(cur.parts)
       IN
        /\ logs' = logResult(cur.acc, cur.grp, "sent", <<p.kind, p.url>>)
        /\ cur' = [cur EXCEPT !.handed = Append(@, p), !.idx = @ + 1,
                              !.result = IF last THEN "ok" ELSE "none"]
        /\ pc' = IF last THEN "sleep" ELSE "sending"
        /\ doneAt' = IF last THEN [doneAt EXCEPT ![cur.grp] = <<clock>>] ELSE doneAt
    /\ UNCHANGED <<nonSched, clock, cfg, accounts, paired, groups, templates, queue,
                   tickSends, lastTick>>

\* SendToGroupWithSession: the part is delivered and logged, but the context
\* expires during the pacing sleep; sleepRange's error is returned as is
SendPartOkSleepCancelled ==
    /\ pc = "sending"
    /\ LET p == cur.parts[cur.idx + 1] IN
        /\ logs' = logResult(cur.acc, cur.grp, "sent", <<p.kind, p.url>>)
        /\ cur' = [cur EXCEPT !.handed = Append(@, p), !.idx = @ + 1, !.result = "err"]
    /\ pc' = "sleep"
    /\ UNCHANGED <<nonSched, clock, cfg, accounts, paired, groups, templates, queue,
                   tickSends, lastTick, doneAt>>

\* processOneSend after the Sender returned nil: sleepBetweenGroups, return nil
SleepThenReturn ==
    /\ pc = "sleep"
    /\ cur.result = "ok"
    /\ pc' = "idle"
    /\ queue' = <<>>
    /\ cur' = NoSend
    /\ tickSends' = <<>>
    /\ UNCHANGED <<nonSched, clock, cfg, accounts, paired, groups, templates, logs,
                   lastTick, doneAt>>

\* processOneSend after the Sender returned an error: sleepBetweenGroups, continue
SleepThenContinue ==
    /\ pc = "sleep"
    /\ cur.result = "err"
    /\ pc' = "account"
    /\ UNCHANGED <<nonSched, clock, cfg, accounts, paired, groups, templates, logs,
                   queue, cur, tickSends, lastTick, doneAt>>

\* time passes
Advance ==
    /\ pc = "idle"
    /\ clock + ClockStep <= MaxClock
    /\ clock' = clock + ClockStep
    /\ UNCHANGED <<nonSched, cfg, accounts, paired, groups, templates, logs, pc, queue,
                   cur, tickSends, lastTick, doneAt>>

Store(cap) ==
    \/ TickSkip
    \/ TickBegin(cap)
    \/ TickEnd
    \/ SkipAccount
    \/ SkipAccountConnectError
    \/ SelectAndSend(cap)
    \/ SendPartFail
    \/ SendPartOk
    \/ SendPartOkSleepCancelled
    \/ SleepThenReturn
    \/ SleepThenContinue
    \/ Advance
    \/ \E g \in Groups, en \in BOOLEAN : ToggleGroup(g, en)

Next == Store(MaxLogs)

Spec == Init /\ [][Next]_vars

\* One paired account and a template that carries every kind of part
InitOrder ==
    /\ clock = StartClock
    /\ cfg \in [alwaysOn : {FALSE}, cooldownHr : {DefaultCooldownHr},
                riskThreshold : {DefaultRiskThreshold}]
    /\ accounts = [a \in Accounts |->
                     [enabled |-> a = "a1", daily_limit |-> DefaultDailyLimit]]
    /\ paired = [a \in Accounts |-> a = "a1"]
    /\ groups = [g \in Groups |->
                   [account_id |-> OwnerOf[g], enabled |-> FALSE,
                    risk_score |-> 0, last_sent_at |-> NULL,
                    name |-> <<>>]]
    /\ templates \in {{TplFull}, {TplFullBlank}}
    /\ logs = <<>>
    /\ pc = "idle"
    /\ queue = <<>>
    /\ cur = NoSend
    /\ tickSends = <<>>
    /\ lastTick = "none"
    /\ doneAt = [g \in Groups |-> NULL]
    /\ rt = NoRetry
    /\ JoinOff
    /\ StoreFull
    /\ WAOff
    /\ MoreOff

NextOrder == Store(MaxOrderLogs)

SpecOrder == InitOrder /\ [][NextOrder]_vars

\* SCHEDULER_RISK_THRESHOLD values: below, at and above the Sender's own
RiskThresholds == {DefaultRiskThreshold - 1, DefaultRiskThreshold, DefaultRiskThreshold + 1}

\* scheduler.New with the environment overrides SCHEDULER_ALWAYS_ON and
\* SCHEDULER_RISK_THRESHOLD; one enabled, paired account and one text template
InitCfg ==
    /\ clock = StartClock
    /\ cfg \in [alwaysOn : BOOLEAN, cooldownHr : {DefaultCooldownHr},
                riskThreshold : RiskThresholds]
    /\ accounts = [a \in Accounts |->
                     [enabled |-> a = "a1", daily_limit |-> DefaultDailyLimit]]
    /\ paired = [a \in Accounts |-> a = "a1"]
    /\ groups = [g \in Groups |->
                   [account_id |-> OwnerOf[g], enabled |-> FALSE,
                    risk_score |-> 0, last_sent_at |-> NULL,
                    name |-> <<>>]]
    /\ templates \in {{TplText}, {TplTextImage}}
    /\ logs = <<>>
    /\ pc = "idle"
    /\ queue = <<>>
    /\ cur = NoSend
    /\ tickSends = <<>>
    /\ lastTick = "none"
    /\ doneAt = [g \in Groups |-> NULL]
    /\ rt = NoRetry
    /\ JoinOff
    /\ StoreFull
    /\ WAOff
    /\ MoreOff

NextCfg == Store(MaxCfgLogs)

SpecCfg == InitCfg /\ [][NextCfg]_vars

(***************************************************************************)
(* sender.withRetry: one call of withRetry around a function fn whose      *)
(* successive results are scripted.  Durations are in milliseconds.        *)
(***************************************************************************)

\* httpStatusError{code, url}; text is what Error() prints
HttpStatusError(code, url) ==
    [type |-> "http", code |-> code,
     text |-> <<"f", "e", "t", "c", "h", " ">> \o url
              \o <<":", " ", "s", "t", "a", "t", "u", "s", " ">> \o Itoa(code)]

\* any other error value, known by its message
ErrorString(text) == [type |-> "error", code |-> 0, text |-> text]

ContextCanceled ==
    ErrorString(<<"c", "o", "n", "t", "e", "x", "t", " ",
                  "c", "a", "n", "c", "e", "l", "e", "d">>)

RetryableWords ==
    { <<"t", "i", "m", "e", "o", "u", "t">>,
      <<"t", "e", "m", "p", "o", "r", "a", "r", "y">>,
      <<"e", "o", "f">>,
      <<"r", "e", "s", "e", "t">>,
      <<"d", "e", "a", "d", "l", "i", "n", "e">> }

isRetryable(err) ==
    IF err.type = "nil" THEN FALSE
    ELSE IF err.type = "http"
         THEN err.code = 429 \/ (err.code >= 500 /\ err.code <= 599)
         ELSE \E w \in RetryableWords : Contains(ToLower(err.text), w)

ErrorValues ==
    { NoError,
      HttpStatusError(404, <<"u">>),
      HttpStatusError(404, <<"e", "o", "f">>),
      HttpStatusError(429, <<"u">>),
      HttpStatusError(500, <<"u">>),
      ErrorString(<<"E", "O", "F">>),
      ErrorString(<<"d", "e", "n", "i", "e", "d">>) }

Min(a, b) == IF a < b THEN a ELSE b

\* withRetry gives up after one attempt too many
RetryGivesUp_OneTooMany(attempt, err) == attempt > maxAttempts \/ ~isRetryable(err)

\* withRetry: if attempt >= maxAttempts || !isRetryable(err) { return err }
RetryGivesUp(attempt, err) == attempt >= maxAttempts \/ ~isRetryable(err)

\* rand.Int63n(int64(float64(backoff) * jitterPct)): the two extreme draws
JitterDraws(backoff) == {0, (backoff * jitterPct) \div 100 - 1}

InitRetry ==
    /\ clock = StartClock
    /\ cfg = [alwaysOn |-> FALSE, cooldownHr |-> DefaultCooldownHr,
              riskThreshold |-> DefaultRiskThreshold]
    /\ accounts = [a \in Accounts |-> [enabled |-> TRUE, daily_limit |-> DefaultDailyLimit]]
    /\ paired = [a \in Accounts |-> TRUE]
    /\ groups = [g \in Groups |->
                   [account_id |-> OwnerOf[g], enabled |-> FALSE,
                    risk_score |-> 0, last_sent_at |-> NULL,
                    name |-> <<>>]]
    /\ templates = {}
    /\ logs = <<>>
    /\ pc = "idle"
    /\ queue = <<>>
    /\ cur = NoSend
    /\ tickSends = <<>>
    /\ lastTick = "none"
    /\ doneAt = [g \in Groups |-> NULL]
    /\ rt \in [pc : {"call"}, script : [1..MaxCalls -> ErrorValues], attempt : {0},
               calls : {0}, backoff : {baseBackoff}, wait : {0}, ret : {NoError}]
    /\ JoinOff
    /\ StoreFull
    /\ WAOff
    /\ MoreOff

\* withRetry: err := fn(); nil returns nil; otherwise attempt++ and either
\* return err or draw the jittered wait
RetryCall ==
    /\ rt.pc = "call"
    /\ rt.calls < MaxCalls
    /\ LET err == rt.script[rt.calls + 1]
           attempt == rt.attempt + 1
       IN  IF err = NoError
              THEN rt' = [rt EXCEPT !.calls = @ + 1, !.pc = "done", !.ret = NoError]
              ELSE IF RetryGivesUp(attempt, err)
                      THEN rt' = [rt EXCEPT !.calls = @ + 1, !.attempt = attempt,
                                            !.pc = "done", !.ret = err]
                      ELSE \E jit \in JitterDraws(rt.backoff) :
                              rt' = [rt EXCEPT !.calls = @ + 1, !.attempt = attempt,
                                               !.pc = "backoff",
                                               !.wait = Min(rt.backoff + jit, maxBackoff)]
    /\ UNCHANGED <<schedVars, joinVars, storeVars, waVars, moreVars>>

\* withRetry, case <-time.After(wait): backoff doubles up to maxBackoff, loop
RetryBackoffElapsed ==
    /\ rt.pc = "backoff"
    /\ rt' = [rt EXCEPT !.pc = "call", !.backoff = Min(rt.backoff * 2, maxBackoff)]
    /\ UNCHANGED <<schedVars, joinVars, storeVars, waVars, moreVars>>

\* withRetry, case <-ctx.Done(): return ctx.Err()
RetryCtxDone ==
    /\ rt.pc = "backoff"
    /\ rt' = [rt EXCEPT !.pc = "done", !.ret = ContextCanceled]
    /\ UNCHANGED <<schedVars, joinVars, storeVars, waVars, moreVars>>

NextRetry ==
    \/ RetryCall
    \/ RetryBackoffElapsed
    \/ RetryCtxDone

SpecRetry == InitRetry /\ [][NextRetry]_vars

(***************************************************************************)
(* autojoin.AutoJoiner: ProcessInviteCode run by inbound-message handlers  *)
(* and by the goroutine of handleManualJoin, one step per access to the    *)
(* auto_join_logs table, the lastJoinTime map or the protocol.             *)
(***************************************************************************)

IsAlnum(c) ==
    \/ \E i \in 1..Len(UpperLetters) : UpperLetters[i] = c
    \/ \E i \in 1..Len(LowerLetters) : LowerLetters[i] = c
    \/ \E i \in 1..Len(DigitChars) : DigitChars[i] = c

NormalizeInviteCode(code) == SelectSeq(TrimSpace(code), IsAlnum)

ValidateInviteCode(code) ==
    /\ Len(code) >= MinCodeLen
    /\ Len(code) <= MaxCodeLen
    /\ \A i \in 1..Len(code) : IsAlnum(code[i])

CodeA == <<"A", "b", "C", "d", "E", "f", "G", "h", "1", "2">>
CodeADecorated == <<" ">> \o SubSeq(CodeA, 1, 5) \o <<"-">> \o SubSeq(CodeA, 6, 10)
CodeB == <<"Z", "y", "X", "w", "V", "u", "T", "s", "9", "8">>
CodeShort == <<"a", "b", "c">>

\* what the message pattern [A-Za-z0-9]+ can capture / what an operator can post
MessageCodes == {CodeA, CodeB, CodeShort}
ManualCodes == {CodeADecorated}

SenderS1 == <<"s", "1">>
Manual == <<"m", "a", "n", "u", "a", "l">>

\* the name the protocol reports for the group behind a code
GroupNameOf(code) ==
    IF code = CodeA THEN <<"P", "r", "o", "m", "o">> ELSE <<"S", "P", "A", "M", " ", "x">>

DefaultSettings ==
    [enabled |-> FALSE, daily_limit |-> DefaultJoinDailyLimit, preview_before_join |-> TRUE,
     whitelist_contacts |-> <<>>, blacklist_keywords |-> <<>>]

PlainSettings == <<[DefaultSettings EXCEPT !.enabled = TRUE]>>

SettingsChoices ==
    { NULL,
      PlainSettings,
      <<[DefaultSettings EXCEPT !.enabled = TRUE, !.daily_limit = 1,
                                !.preview_before_join = FALSE,
                                !.blacklist_keywords = << <<"s", "p", "a", "m">> >>]>>,
      <<[DefaultSettings EXCEPT !.enabled = TRUE,
                                !.whitelist_contacts = << <<"S", "1">> >>,
                                !.blacklist_keywords = << <<"s", "p", "a", "m">> >>]>> }

loadSettings(a) == IF settings[a] = NULL THEN DefaultSettings ELSE settings[a][1]

JoinDay(t) == t \div SecondsPerDay

countJoinsToday(a) ==
    Cardinality({i \in 1..Len(autoJoinLogs) :
        /\ autoJoinLogs[i].account_id = a
        /\ autoJoinLogs[i].status = "joined"
        /\ autoJoinLogs[i].joined_at >= JoinDay(now) * SecondsPerDay})

\* the two strings.ToLower calls are left out
isWhitelisted_CaseSensitive(f, senderJID) ==
    \E i \in 1..Len(f.whitelist_contacts) :
        f.whitelist_contacts[i] = senderJID

isWhitelisted(f, senderJID) ==
    \E i \in 1..Len(f.whitelist_contacts) :
        ToLower(f.whitelist_contacts[i]) = ToLower(senderJID)

isBlacklisted(f, groupName) ==
    \E i \in 1..Len(f.blacklist_keywords) :
        Contains(ToLower(groupName), ToLower(f.blacklist_keywords[i]))

\* Filter.ShouldJoin: "" when the join may go ahead, else the reason
ShouldJoin(f, senderJID, groupName, joinsToday) ==
    IF ~f.enabled THEN "auto_join_disabled"
    ELSE IF joinsToday >= f.daily_limit THEN "daily_limit_reached"
    ELSE IF Len(f.whitelist_contacts) > 0 /\ ~isWhitelisted(f, senderJID)
         THEN "sender_not_whitelisted"
    ELSE IF groupName # <<>> /\ isBlacklisted(f, groupName) THEN "keyword_blacklisted"
    ELSE ""

checkRateLimit(a) ==
    lastJoinTime[a] = NULL \/ now - lastJoinTime[a][1] >= minInterval

isAlreadyJoined(a, code) ==
    \E i \in 1..Len(autoJoinLogs) :
        /\ autoJoinLogs[i].account_id = a
        /\ autoJoinLogs[i].invite_code = code
        /\ autoJoinLogs[i].status = "joined"

\* history: ProcessInviteCode is called with auto-join enabled for a code
\* that already has a joined row for the account
DuplicateCall(a, code) ==
    loadSettings(a).enabled /\ isAlreadyJoined(a, NormalizeInviteCode(code))

logAttempt(p, groupName, status, reason) ==
    Append(autoJoinLogs,
           [account_id |-> procs[p].acc, group_name |-> groupName,
            invite_code |-> procs[p].code, shared_by |-> procs[p].sharedBy,
            status |-> status, reason |-> reason, joined_at |-> now])

\* results a protocol call can have under the invocation's context
CallOutcomes(ctx) == IF ctx = "cancelled" THEN {FALSE} ELSE BOOLEAN

InitJoin ==
    /\ clock = StartClock
    /\ cfg = [alwaysOn |-> FALSE, cooldownHr |-> DefaultCooldownHr,
              riskThreshold |-> DefaultRiskThreshold]
    /\ accounts = [a \in Accounts |-> [enabled |-> TRUE, daily_limit |-> DefaultDailyLimit]]
    /\ paired = [a \in Accounts |-> TRUE]
    /\ groups = [g \in Groups |->
                   [account_id |-> OwnerOf[g], enabled |-> FALSE,
                    risk_score |-> 0, last_sent_at |-> NULL,
                    name |-> <<>>]]
    /\ templates = {}
    /\ logs = <<>>
    /\ pc = "idle"
    /\ queue = <<>>
    /\ cur = NoSend
    /\ tickSends = <<>>
    /\ lastTick = "none"
    /\ doneAt = [g \in Groups |-> NULL]
    /\ rt = NoRetry
    /\ now = 0
    /\ settings \in {f \in [Accounts -> SettingsChoices] : f["a2"] = PlainSettings}
    /\ autoJoinLogs = <<>>
    /\ lastJoinTime = [a \in Accounts |-> NULL]
    /\ procs = [p \in Procs |-> NoProc]
    /\ joins = <<>>
    /\ crashed = FALSE
    /\ StoreFull
    /\ WAOff
    /\ MoreOff

\* HandleMessage: a message carrying one group link reaches account a; the
\* handler runs ProcessInviteCode with context.Background()
HandleMessage(p, a, code, sender) ==
    /\ ~crashed
    /\ procs[p].pc = "idle"
    /\ procs' = [procs EXCEPT ![p] = [NoProc EXCEPT !.pc = "start", !.acc = a, !.code = code,
                                                   !.sharedBy = sender, !.ctx = "background",
                                                   !.dup = DuplicateCall(a, code)]]
    /\ UNCHANGED <<schedVars, rt, storeVars, waVars, moreVars, now, settings, autoJoinLogs, lastJoinTime, joins, crashed>>

\* handleManualJoin: go ProcessInviteCode(ctx, account, code, "manual", "manual")
\* with ctx derived from the request
handleManualJoin(p, a, code) ==
    /\ ~crashed
    /\ procs[p].pc = "idle"
    /\ a \in DOMAIN accounts
    /\ procs' = [procs EXCEPT ![p] = [NoProc EXCEPT !.pc = "start", !.acc = a, !.code = code,
                                                   !.sharedBy = Manual, !.ctx = "live",
                                                   !.dup = DuplicateCall(a, code)]]
    /\ UNCHANGED <<schedVars, rt, storeVars, waVars, moreVars, now, settings, autoJoinLogs, lastJoinTime, joins, crashed>>

\* handleManualJoin returns: the deferred cancel() ends the goroutine's context
HandlerReturn(p) ==
    /\ ~crashed
    /\ procs[p].ctx = "live"
    /\ procs' = [procs EXCEPT ![p].ctx = "cancelled"]
    /\ UNCHANGED <<schedVars, rt, storeVars, waVars, moreVars, now, settings, autoJoinLogs, lastJoinTime, joins, crashed>>

\* ProcessInviteCode: normalize, validate, load settings, enabled?, count joins today
JStart(p) ==
    /\ ~crashed
    /\ procs[p].pc = "start"
    /\ LET code == NormalizeInviteCode(procs[p].code)
           q == [procs EXCEPT ![p].code = code]
           row(reason) == [account_id |-> procs[p].acc, group_name |-> <<>>,
                           invite_code |-> code, shared_by |-> procs[p].sharedBy,
                           status |-> "skipped", reason |-> reason, joined_at |-> now]
       IN  IF ~ValidateInviteCode(code)
              THEN /\ autoJoinLogs' = Append(autoJoinLogs, row("invalid_invite_code"))
                   /\ procs' = [procs EXCEPT ![p] = Returned]
              ELSE IF ~loadSettings(procs[p].acc).enabled
                      THEN /\ autoJoinLogs' = Append(autoJoinLogs, row("auto_join_disabled"))
                           /\ procs' = [procs EXCEPT ![p] = Returned]
                      ELSE /\ procs' = [q EXCEPT ![p].pc = "preview",
                                                 ![p].joinsToday = countJoinsToday(procs[p].acc)]
                           /\ UNCHANGED autoJoinLogs
    /\ UNCHANGED <<schedVars, rt, storeVars, waVars, moreVars, now, settings, lastJoinTime, joins, crashed>>

\* ProcessInviteCode: previewGroup when enabled, then Filter.ShouldJoin
JPreviewAndFilter(p) ==
    /\ ~crashed
    /\ procs[p].pc = "preview"
    /\ LET f == loadSettings(procs[p].acc)
       IN  \E ok \in CallOutcomes(procs[p].ctx) :
              IF f.preview_before_join /\ ~ok
                 THEN /\ autoJoinLogs' = logAttempt(p, <<>>, "failed", "preview_failed")
                      /\ procs' = [procs EXCEPT ![p] = Returned]
                 ELSE LET name == IF f.preview_before_join
                                     THEN GroupNameOf(procs[p].code) ELSE <<>>
                          reason == ShouldJoin(f, procs[p].sharedBy, name, procs[p].joinsToday)
                      IN  IF reason # ""
                             THEN /\ autoJoinLogs' = logAttempt(p, name, "skipped", reason)
                                  /\ procs' = [procs EXCEPT ![p] = Returned]
                             ELSE /\ procs' = [procs EXCEPT ![p].pc = "rate",
                                                            ![p].groupName = name,
                                                            ![p].called =
                                                                @ \/ f.preview_before_join]
                                  /\ UNCHANGED autoJoinLogs
    /\ UNCHANGED <<schedVars, rt, storeVars, waVars, moreVars, now, settings, lastJoinTime, joins, crashed>>

\* ProcessInviteCode: if !aj.checkRateLimit(accountID) { skipped rate_limit }
JCheckRateLimit(p) ==
    /\ ~crashed
    /\ procs[p].pc = "rate"
    /\ IF checkRateLimit(procs[p].acc)
          THEN /\ procs' = [procs EXCEPT ![p].pc = "dup"]
               /\ UNCHANGED autoJoinLogs
          ELSE /\ autoJoinLogs' = logAttempt(p, procs[p].groupName, "skipped", "rate_limit")
               /\ procs' = [procs EXCEPT ![p] = Returned]
    /\ UNCHANGED <<schedVars, rt, storeVars, waVars, moreVars, now, settings, lastJoinTime, joins, crashed>>

\* ProcessInviteCode: if aj.isAlreadyJoined(accountID, code) { skipped already_joined }
JCheckAlreadyJoined(p) ==
    /\ ~crashed
    /\ procs[p].pc = "dup"
    /\ IF isAlreadyJoined(procs[p].acc, procs[p].code)
          THEN /\ autoJoinLogs' = logAttempt(p, procs[p].groupName, "skipped", "already_joined")
               /\ procs' = [procs EXCEPT ![p] = Returned]
          ELSE /\ procs' = [procs EXCEPT ![p].pc = "wait"]
               /\ UNCHANGED autoJoinLogs
    /\ UNCHANGED <<schedVars, rt, storeVars, waVars, moreVars, now, settings, lastJoinTime, joins, crashed>>

\* waitForRateLimit: read the map; sleep for the rest of minInterval if needed
JWaitForRateLimit(p) ==
    /\ ~crashed
    /\ procs[p].pc = "wait"
    /\ LET last == lastJoinTime[procs[p].acc]
       IN  IF last # NULL /\ now - last[1] < minInterval
              THEN procs' = [procs EXCEPT ![p].pc = "sleep",
                                          ![p].wakeAt = last[1] + minInterval]
              ELSE procs' = [procs EXCEPT ![p].pc = "join"]
    /\ UNCHANGED <<schedVars, rt, storeVars, waVars, moreVars, now, settings, autoJoinLogs, lastJoinTime, joins, crashed>>

\* waitForRateLimit: select { case <-time.After(waitTime): case <-ctx.Done(): }
JWake(p) ==
    /\ ~crashed
    /\ procs[p].pc = "sleep"
    /\ now >= procs[p].wakeAt \/ procs[p].ctx = "cancelled"
    /\ procs' = [procs EXCEPT ![p].pc = "join"]
    /\ UNCHANGED <<schedVars, rt, storeVars, waVars, moreVars, now, settings, autoJoinLogs, lastJoinTime, joins, crashed>>

\* variant: a failed join call is logged and the call is made again
JJoinGroup_Retries(p) ==
    /\ ~crashed
    /\ procs[p].pc = "join"
    /\ \E ok \in CallOutcomes(procs[p].ctx) :
          IF ok
             THEN /\ joins' = Append(joins, [account_id |-> procs[p].acc,
                                             invite_code |-> procs[p].code, at |-> now])
                  /\ procs' = [procs EXCEPT ![p].pc = "log", ![p].called = TRUE]
                  /\ UNCHANGED autoJoinLogs
             ELSE /\ autoJoinLogs' = logAttempt(p, procs[p].groupName, "failed", "join")
                  /\ procs' = [procs EXCEPT ![p].called = TRUE]
                  /\ UNCHANGED joins
    /\ UNCHANGED <<schedVars, rt, storeVars, waVars, moreVars, now, settings, lastJoinTime, crashed>>

\* ProcessInviteCode: joinGroup; on error a failed row; on success
\* GetGroupInfo fills an empty group name when it answers
JJoinGroup(p) ==
    /\ ~crashed
    /\ procs[p].pc = "join"
    /\ \E ok \in CallOutcomes(procs[p].ctx) :
          IF ok
             THEN /\ joins' = Append(joins, [account_id |-> procs[p].acc,
                                             invite_code |-> procs[p].code, at |-> now])
                  /\ \E info \in BOOLEAN :
                        procs' = [procs EXCEPT ![p].pc = "log", ![p].called = TRUE,
                                     ![p].groupName =
                                         IF procs[p].groupName = <<>> /\ info
                                            THEN GroupNameOf(procs[p].code)
                                            ELSE procs[p].groupName]
                  /\ UNCHANGED autoJoinLogs
             ELSE /\ autoJoinLogs' = logAttempt(p, procs[p].groupName, "failed", "join")
                  /\ procs' = [procs EXCEPT ![p] = Returned]
                  /\ UNCHANGED joins
    /\ UNCHANGED <<schedVars, rt, storeVars, waVars, moreVars, now, settings, lastJoinTime, crashed>>

\* ProcessInviteCode: aj.logAttempt(..., "joined", "")
JLogJoined(p) ==
    /\ ~crashed
    /\ procs[p].pc = "log"
    /\ autoJoinLogs' = logAttempt(p, procs[p].groupName, "joined", "")
    /\ procs' = [procs EXCEPT ![p].pc = "stamp"]
    /\ UNCHANGED <<schedVars, rt, storeVars, waVars, moreVars, now, settings, lastJoinTime, joins, crashed>>

\* ProcessInviteCode: aj.lastJoinTime[accountID] = time.Now(), then the
\* group sync goroutine is started and the invocation returns
JStampLastJoinTime(p) ==
    /\ ~crashed
    /\ procs[p].pc = "stamp"
    /\ lastJoinTime' = [lastJoinTime EXCEPT ![procs[p].acc] = <<now>>]
    /\ procs' = [procs EXCEPT ![p] = [NoProc EXCEPT !.pc = "sync", !.acc = procs[p].acc]]
    /\ UNCHANGED <<schedVars, rt, storeVars, waVars, moreVars, now, settings, autoJoinLogs, joins, crashed>>

\* the goroutine started after a join: FetchAndSyncGroups upserts one row per
\* group the account belongs to; rows of the groups table keep their
\* enabled, risk_score and last_sent_at, and an account belongs to the
\* groups it owns, so the rows modelled here are left as they are
SyncGroupsAfterJoin(p) ==
    /\ ~crashed
    /\ procs[p].pc = "sync"
    /\ procs' = [procs EXCEPT ![p] = Returned]
    /\ UNCHANGED <<schedVars, rt, storeVars, waVars, moreVars, now, settings, autoJoinLogs, lastJoinTime, joins, crashed>>

\* lastJoinTime is a plain map: a write that runs at the same time as
\* another access to it may make the Go runtime abort the process
ConcurrentMapFault ==
    /\ ~crashed
    /\ \E p \in Procs, q \in Procs :
          /\ p # q
          /\ procs[p].pc = "stamp"
          /\ procs[q].pc \in {"rate", "wait", "stamp"}
    /\ crashed' = TRUE
    /\ UNCHANGED <<schedVars, rt, storeVars, waVars, moreVars, now, settings, autoJoinLogs, lastJoinTime, procs, joins>>

\* one second passes; time is counted from the first invocation
Tick ==
    /\ ~crashed
    /\ now < MaxNow
    /\ \E p \in Procs : procs[p].pc # "idle"
    /\ now' = now + 1
    /\ UNCHANGED <<schedVars, rt, storeVars, waVars, moreVars, settings, autoJoinLogs, lastJoinTime, procs, joins, crashed>>

NextJoin ==
    \/ \E p \in Procs, code \in MessageCodes :
          \E a \in ClientsOf[p] : HandleMessage(p, a, code, SenderS1)
    \/ \E p \in Procs, code \in ManualCodes :
          \E a \in ClientsOf[p] : handleManualJoin(p, a, code)
    \/ \E p \in Procs : HandlerReturn(p)
    \/ \E p \in Procs : JStart(p)
    \/ \E p \in Procs : JPreviewAndFilter(p)
    \/ \E p \in Procs : JCheckRateLimit(p)
    \/ \E p \in Procs : JCheckAlreadyJoined(p)
    \/ \E p \in Procs : JWaitForRateLimit(p)
    \/ \E p \in Procs : JWake(p)
    \/ \E p \in Procs : JJoinGroup(p)
    \/ \E p \in Procs : JLogJoined(p)
    \/ \E p \in Procs : JStampLastJoinTime(p)
    \/ \E p \in Procs : SyncGroupsAfterJoin(p)
    \/ ConcurrentMapFault
    \/ Tick

SpecJoin == InitJoin /\ [][NextJoin]_vars

(***************************************************************************)
(* storage.Store: the statements that insert, update and delete rows of    *)
(* the accounts, groups, logs and auto-join tables, with foreign keys      *)
(* enforced as Open sets them.                                             *)
(***************************************************************************)

\* a TEXT column holding SQL NULL
NullText == "NULL"

NoGroupRow == [account_id |-> "", enabled |-> FALSE, risk_score |-> 0,
               last_sent_at |-> NULL, name |-> <<>>]

\* rows a group can have after syncs, toggles and failed sends
StoredRows(g) ==
    { [NoGroupRow EXCEPT !.account_id = OwnerOf[g], !.enabled = TRUE, !.name = <<"G">>],
      [NoGroupRow EXCEPT !.account_id = OwnerOf[g], !.risk_score = riskThreshold,
                         !.name = <<"G">>],
      [NoGroupRow EXCEPT !.account_id = OwnerOf[g], !.enabled = TRUE, !.risk_score = 1] }

IncomingNames == {<<>>, <<"N">>}

\* what GetJoinedGroups can report: group id -> name, for some groups
GroupMaps == UNION {[S -> IncomingNames] : S \in (SUBSET Groups) \ {{}}}

JoinedRow(a, code) ==
    [account_id |-> a, group_name |-> GroupNameOf(code), invite_code |-> code,
     shared_by |-> SenderS1, status |-> "joined", reason |-> "", joined_at |-> 0]

\* UpsertGroup on conflict sets enabled from the inserted values
UpsertedRow_ResetsEnabled(g, accountID, name) ==
    IF g \in groupIds
       THEN [groups[g] EXCEPT !.account_id = accountID, !.enabled = FALSE,
                              !.name = IF name = <<>> THEN @ ELSE name]
       ELSE [NoGroupRow EXCEPT !.account_id = accountID, !.name = name]

\* UpsertGroup: INSERT (id, account_id, name, enabled = 0) ON CONFLICT(id) DO
\* UPDATE SET account_id = excluded.account_id,
\*            name = COALESCE(NULLIF(excluded.name, ''), groups.name)
UpsertedRow(g, accountID, name) ==
    IF g \in groupIds
       THEN [groups[g] EXCEPT !.account_id = accountID,
                              !.name = IF name = <<>> THEN @ ELSE name]
       ELSE [NoGroupRow EXCEPT !.account_id = accountID, !.name = name]

\* DELETE FROM accounts leaves the groups of the account in place
CascadedGroups_None(id) == {}

\* groups.account_id REFERENCES accounts(id) ON DELETE CASCADE
CascadedGroups(id) == {g \in groupIds : groups[g].account_id = id}

\* logs.account_id and logs.group_id REFERENCES ... ON DELETE SET NULL
LogsAfterDelete(id, gone) ==
    [i \in 1..Len(logs) |->
        [logs[i] EXCEPT !.account_id = IF @ = id THEN NullText ELSE @,
                        !.group_id = IF @ \in gone THEN NullText ELSE @]]

\* auto_join_settings.account_id REFERENCES accounts(id) ON DELETE CASCADE
SettingsAfterDelete(id) == [settings EXCEPT ![id] = NULL]

KeepsRow(row, id) == row.account_id # id

\* auto_join_logs.account_id REFERENCES accounts(id) ON DELETE CASCADE
AutoJoinLogsAfterDelete(id) ==
    LET keep(row) == KeepsRow(row, id) IN SelectSeq(autoJoinLogs, keep)

InitStore ==
    /\ clock = StartClock
    /\ cfg = [alwaysOn |-> FALSE, cooldownHr |-> DefaultCooldownHr,
              riskThreshold |-> DefaultRiskThreshold]
    /\ accounts = [a \in Accounts |-> [enabled |-> TRUE, daily_limit |-> DefaultDailyLimit]]
    /\ paired = [a \in Accounts |-> TRUE]
    /\ groupIds \in SUBSET Groups
    /\ groups \in {f \in [Groups -> UNION {StoredRows(g) : g \in Groups} \cup {NoGroupRow}] :
                     \A g \in Groups : IF g \in groupIds THEN f[g] \in StoredRows(g)
                                                         ELSE f[g] = NoGroupRow}
    /\ templates = {}
    /\ logs = <<>>
    /\ pc = "idle"
    /\ queue = <<>>
    /\ cur = NoSend
    /\ tickSends = <<>>
    /\ lastTick = "none"
    /\ doneAt = [g \in Groups |-> NULL]
    /\ rt = NoRetry
    /\ now = 0
    /\ settings \in {f \in [Accounts -> {NULL, PlainSettings}] : f["a1"] # NULL}
    /\ autoJoinLogs = <<JoinedRow("a1", CodeA), JoinedRow("a2", CodeB)>>
    /\ lastJoinTime = [a \in Accounts |-> NULL]
    /\ procs = [p \in Procs |-> NoProc]
    /\ joins = <<>>
    /\ crashed = FALSE
    /\ accountIds = Accounts
    /\ WAOff
    /\ MoreOff

\* Sender.logResult for a send that was started for group g of account a:
\* INSERT INTO logs; the insert fails when the account or the group it
\* references has no row any more
SenderLogResult(a, g, status) ==
    /\ Len(logs) < MaxStoreLogs
    /\ a = OwnerOf[g]
    /\ logs' = IF a \in accountIds /\ g \in groupIds
                  THEN logResult(a, g, status, <<>>) ELSE logs
    /\ UNCHANGED <<clock, cfg, accounts, paired, groups, templates, pc, queue, cur,
                   tickSends, lastTick, doneAt, rt, joinVars, storeVars, waVars, moreVars>>

\* Store.UpsertGroup; the statement fails when the account has no row
UpsertGroup(accountID, g, name) ==
    /\ IF accountID \in accountIds
          THEN /\ groups' = [groups EXCEPT ![g] = UpsertedRow(g, accountID, name)]
               /\ groupIds' = groupIds \cup {g}
          ELSE UNCHANGED <<groups, groupIds>>
    /\ UNCHANGED <<clock, cfg, accounts, paired, templates, logs, pc, queue, cur,
                   tickSends, lastTick, doneAt, rt, joinVars, accountIds, waVars, moreVars>>

\* Manager.FetchAndSyncGroups: one UpsertGroup per joined group reported by
\* the protocol, gmap being group id -> name
FetchAndSyncGroups(accountID, gmap) ==
    /\ IF accountID \in accountIds
          THEN /\ groups' = [g \in Groups |->
                               IF g \in DOMAIN gmap
                                  THEN UpsertedRow(g, accountID, gmap[g]) ELSE groups[g]]
               /\ groupIds' = groupIds \cup DOMAIN gmap
          ELSE UNCHANGED <<groups, groupIds>>
    /\ UNCHANGED <<clock, cfg, accounts, paired, templates, logs, pc, queue, cur,
                   tickSends, lastTick, doneAt, rt, joinVars, accountIds, waVars, moreVars>>

\* Store.DeleteAccount: DELETE FROM accounts WHERE id = ?, with the foreign
\* key actions of the tables that reference accounts and groups
DeleteAccount(id) ==
    /\ id \in accountIds
    /\ LET gone == CascadedGroups(id)
       IN  /\ accountIds' = accountIds \ {id}
           /\ groupIds' = groupIds \ gone
           /\ groups' = [g \in Groups |-> IF g \in gone THEN NoGroupRow ELSE groups[g]]
           /\ logs' = LogsAfterDelete(id, gone)
    /\ settings' = SettingsAfterDelete(id)
    /\ autoJoinLogs' = AutoJoinLogsAfterDelete(id)
    /\ UNCHANGED <<clock, cfg, accounts, paired, templates, pc, queue, cur, tickSends,
                   lastTick, doneAt, rt, now, lastJoinTime, procs, joins, crashed, waVars, moreVars>>

NextStore ==
    \/ \E a \in Accounts, g \in Groups : SenderLogResult(a, g, "sent")
    \/ \E a \in Accounts, g \in Groups, name \in IncomingNames : UpsertGroup(a, g, name)
    \/ \E a \in Accounts, gmap \in GroupMaps : FetchAndSyncGroups(a, gmap)
    \/ \E id \in Accounts : DeleteAccount(id)

SpecStore == InitStore /\ [][NextStore]_vars

-----------------------------------------------------------------------------
(* Store: account rows *)

\* daily_limit values of requests: negative, zero, small, the documented cap
\* and one above it
DailyLimitInputs == {0 - 1, 0, 1, 50, 1000, 1001}

NoAccountRow == [enabled |-> FALSE, daily_limit |-> 0]

\* if dailyLimit <= 0 { dailyLimit = 100 }
StoredDailyLimit(dailyLimit) == IF dailyLimit <= 0 THEN DefaultDailyLimit ELSE dailyLimit

InitAccounts ==
    /\ clock = StartClock
    /\ cfg = [alwaysOn |-> FALSE, cooldownHr |-> DefaultCooldownHr,
              riskThreshold |-> DefaultRiskThreshold]
    /\ accounts = [a \in Accounts |-> NoAccountRow]
    /\ paired = [a \in Accounts |-> FALSE]
    /\ groups = [g \in Groups |-> NoGroupRow]
    /\ templates = {}
    /\ logs = <<>>
    /\ pc = "idle"
    /\ queue = <<>>
    /\ cur = NoSend
    /\ tickSends = <<>>
    /\ lastTick = "none"
    /\ doneAt = [g \in Groups |-> NULL]
    /\ rt = NoRetry
    /\ JoinOff
    /\ accountIds = {}
    /\ groupIds = {}
    /\ WAOff
    /\ MoreOff

\* Store.CreateAccount: the new row gets a fresh id
CreateAccount(id, m, enabled, dailyLimit) ==
    /\ id \notin accountIds
    /\ accountIds' = accountIds \cup {id}
    /\ accounts' = [accounts EXCEPT ![id] = [enabled |-> enabled,
                                              daily_limit |-> StoredDailyLimit(dailyLimit)]]
    /\ acctStatus' = [acctStatus EXCEPT ![id] = StatusInactive]
    /\ acctMsisdn' = [acctMsisdn EXCEPT ![id] = m]
    /\ UNCHANGED <<clock, cfg, paired, groups, templates, logs, pc, queue, cur,
                   tickSends, lastTick, doneAt, rt, joinVars, groupIds, waVars,
                   lastPair, loopVars, filterVars, callVars, restVars>>

\* handleUpdateAccount: AccountExists, then Store.UpdateAccount
UpdateAccount(id, m, enabled, dailyLimit) ==
    /\ id \in accountIds
    /\ accounts' = [accounts EXCEPT ![id] = [enabled |-> enabled,
                                              daily_limit |-> StoredDailyLimit(dailyLimit)]]
    /\ acctMsisdn' = [acctMsisdn EXCEPT ![id] = m]
    /\ UNCHANGED <<clock, cfg, paired, groups, templates, logs, pc, queue, cur,
                   tickSends, lastTick, doneAt, rt, joinVars, storeVars, waVars,
                   acctStatus, lastPair, loopVars, filterVars, callVars, restVars>>

NextAccounts ==
    \/ \E id \in Accounts, m \in MsisdnInputs, enabled \in BOOLEAN, d \in DailyLimitInputs :
          CreateAccount(id, m, enabled, d)
    \/ \E id \in Accounts, m \in MsisdnInputs, enabled \in BOOLEAN, d \in DailyLimitInputs :
          UpdateAccount(id, m, enabled, d)

SpecAccounts == InitAccounts /\ [][NextAccounts]_vars

-----------------------------------------------------------------------------
(* Session Manager: per-account credential containers, pairing, logout *)

\* background Connect goroutines counted per account
MaxConnects == 3

FileScheme == <<"f", "i", "l", "e", ":">>

DbSuffix == <<".", "d", "b">>

WaInfix == <<"_", "w", "a", "_">>

\* the text of an account id
IdText(accountID) == IF accountID = "a1" THEN <<"a", "1">> ELSE <<"a", "2">>

\* strings.Index for a one-character pattern: position of the first
\* occurrence counted from 1, 0 when there is none
Index(s, c) ==
    IF \E i \in 1..Len(s) : s[i] = c
       THEN CHOOSE i \in 1..Len(s) : s[i] = c /\ \A j \in 1..(i - 1) : s[j] # c
       ELSE 0

HasPrefix(s, p) == Len(s) >= Len(p) /\ SubSeq(s, 1, Len(p)) = p

HasSuffix(s, p) == Len(s) >= Len(p) /\ SubSeq(s, Len(s) - Len(p) + 1, Len(s)) = p

TrimPrefix(s, p) == IF HasPrefix(s, p) THEN SubSeq(s, Len(p) + 1, Len(s)) ELSE s

TrimSuffix(s, p) == IF HasSuffix(s, p) THEN SubSeq(s, 1, Len(s) - Len(p)) ELSE s

\* the part of a DSN before its query string
DSNPath(dsn) == IF Index(dsn, "?") > 0 THEN SubSeq(dsn, 1, Index(dsn, "?") - 1) ELSE dsn

\* the query string of a DSN, "" when it has none
DSNQuery(dsn) ==
    IF Index(dsn, "?") > 0 THEN SubSeq(dsn, Index(dsn, "?") + 1, Len(dsn)) ELSE <<>>

\* Manager.perAccountDSN
perAccountDSN(accountID) ==
    LET base == BaseDSN
        id == IdText(accountID)
        \* "file:promote_wa_" and ".db?_foreign_keys=on" of the default DSN
        DefaultDSNHead == FileScheme \o <<"p", "r", "o", "m", "o", "t", "e">> \o WaInfix
        DefaultDSNTail ==
            DbSuffix \o <<"?", "_", "f", "o", "r", "e", "i", "g", "n", "_", "k", "e",
                          "y", "s", "=", "o", "n">>
        AccParam == <<"a", "c", "c", "=">>
        path == DSNPath(base)
        q == DSNQuery(base)
        fn == TrimPrefix(path, FileScheme)
        perAcc == IF HasSuffix(ToLower(fn), DbSuffix)
                     THEN TrimSuffix(fn, DbSuffix) \o WaInfix \o id \o DbSuffix
                     ELSE fn \o WaInfix \o id \o DbSuffix
    IN  IF base = <<>>
           THEN DefaultDSNHead \o id \o DefaultDSNTail
           ELSE IF HasPrefix(path, FileScheme)
                   THEN FileScheme \o perAcc \o (IF q # <<>> THEN <<"?">> \o q ELSE <<>>)
                   ELSE IF q # <<>>
                           THEN base \o <<"&">> \o AccParam \o id
                           ELSE base \o <<"?">> \o AccParam \o id

\* the database file a DSN names: what follows "?" are parameters of the
\* connection, the file is named by the path, with or without "file:"
DatabaseFile(dsn) == TrimPrefix(DSNPath(dsn), FileScheme)

\* values of DB_DSN: unset branch, file: with and without .db and query,
\* plain file names with and without query
BaseDSNChoices ==
    { <<>>,
      FileScheme \o <<"p">> \o DbSuffix \o <<"?", "k">>,
      FileScheme \o <<"P", ".", "D", "B">>,
      FileScheme \o <<"p">>,
      <<"p">> \o DbSuffix \o <<"?", "k">>,
      <<"p">> \o DbSuffix }

\* Store.ID of a device that has not been paired
NewDevice == "new"

\* Container.GetFirstDevice, and NewDevice when the database holds none
GetFirstDevice(cont) ==
    LET rows == {i \in 1..Len(deviceStore) : deviceStore[i].db = DatabaseFile(cont)}
    IN  IF rows = {} THEN NewDevice
        ELSE deviceStore[CHOOSE i \in rows : \A j \in rows : i <= j].owner

\* the handle a running call works on: the one it got from ensureClient
Handle(t) ==
    IF Clients[threads[t].acc] # NULL THEN Clients[threads[t].acc] ELSE threads[t].client

\* the pairingActive guard is replaced by none
ShouldStartConnect_Always(accountID) == TRUE

\* if !m.pairingActive[accountID]
ShouldStartConnect(accountID) == ~pairingActive[accountID]

InitWA ==
    /\ clock = StartClock
    /\ cfg = [alwaysOn |-> FALSE, cooldownHr |-> DefaultCooldownHr,
              riskThreshold |-> DefaultRiskThreshold]
    /\ accounts = [a \in Accounts |-> [enabled |-> TRUE, daily_limit |-> DefaultDailyLimit]]
    /\ paired = [a \in Accounts |-> FALSE]
    /\ groups = [g \in Groups |->
                   [account_id |-> OwnerOf[g], enabled |-> FALSE,
                    risk_score |-> 0, last_sent_at |-> NULL,
                    name |-> <<>>]]
    /\ templates = {}
    /\ logs = <<>>
    /\ pc = "idle"
    /\ queue = <<>>
    /\ cur = NoSend
    /\ tickSends = <<>>
    /\ lastTick = "none"
    /\ doneAt = [g \in Groups |-> NULL]
    /\ rt = NoRetry
    /\ now = 0
    /\ settings = [a \in Accounts |-> NULL]
    /\ autoJoinLogs = <<>>
    /\ lastJoinTime = [a \in Accounts |-> NULL]
    /\ procs = [p \in Procs |-> NoProc]
    /\ joins = <<>>
    /\ crashed = FALSE
    /\ StoreFull
    /\ BaseDSN \in BaseDSNChoices
    /\ Clients = [a \in Accounts |-> NULL]
    /\ Containers = [a \in Accounts |-> NULL]
    /\ deviceStore = <<>>
    /\ pairingMu = ""
    /\ pairingActive = [a \in Accounts |-> FALSE]
    /\ connectStarts = [a \in Accounts |-> 0]
    /\ threads = [t \in Threads |-> NoThread]
    /\ deleteDone = {}
    /\ MoreOff

\* what no Manager call touches
WAFrame == UNCHANGED <<schedVars, rt, now, lastJoinTime, procs, joins, BaseDSN, moreVars>>

\* a call enters ensureClient
Enter(t, op, a) ==
    /\ ~crashed
    /\ threads[t].pc = "idle"
    /\ threads' = [threads EXCEPT ![t] = [pc |-> "ensure", op |-> op, acc |-> a,
                                          client |-> NULL]]
    /\ WAFrame
    /\ UNCHANGED <<settings, autoJoinLogs, crashed, storeVars, Clients, Containers,
                   deviceStore, pairingMu, pairingActive, connectStarts, deleteDone>>

\* handleAccountPairQR: AccountExists, then Manager.StartPairing
StartPairing(t, a) == a \in accountIds /\ Enter(t, "StartPairing", a)

\* handleAccountPairByNumber: AccountExists, then Manager.RequestPairingCode
RequestPairingCode(t, a) == a \in accountIds /\ Enter(t, "RequestPairingCode", a)

\* handleAccountConnect: AccountExists, then Manager.ConnectIfPaired
ConnectIfPaired(t, a) == a \in accountIds /\ Enter(t, "ConnectIfPaired", a)

\* handleAccountLogout: AccountExists, then Manager.Logout and DropAccount
handleAccountLogout(t, a) == a \in accountIds /\ Enter(t, "handleAccountLogout", a)

\* handleDeleteAccount: AccountExists, then Logout, DropAccount, DeleteAccount
handleDeleteAccount(t, a) == a \in accountIds /\ Enter(t, "handleDeleteAccount", a)

\* processOneSend: the tick has listed the enabled accounts and reaches
\* account a of that list
processOneSend(t, a) == a \in listEnabledAccounts /\ Enter(t, "processOneSend", a)

\* ensureClient: if c, ok := m.Clients[accountID]; ok { return c }
ensureClientLookup(t) ==
    /\ ~crashed
    /\ threads[t].pc = "ensure"
    /\ threads' = [threads EXCEPT ![t] =
                      IF Clients[threads[t].acc] # NULL
                         THEN [@ EXCEPT !.pc = "have", !.client = Clients[threads[t].acc]]
                         ELSE [@ EXCEPT !.pc = "open"]]
    /\ WAFrame
    /\ UNCHANGED <<settings, autoJoinLogs, crashed, storeVars, Clients, Containers,
                   deviceStore, pairingMu, pairingActive, connectStarts, deleteDone>>

\* ensureClient: the container of the account is taken from m.Containers or
\* opened with perAccountDSN, its first device (or a new one) makes the client
ensureClientOpen(t) ==
    /\ ~crashed
    /\ threads[t].pc = "open"
    /\ LET a == threads[t].acc
           cont == IF Containers[a] # NULL THEN Containers[a] ELSE perAccountDSN(a)
       IN  /\ Containers' = [Containers EXCEPT ![a] = cont]
           /\ threads' = [threads EXCEPT ![t].pc = "store",
                                         ![t].client = [cont |-> cont,
                                                        dev |-> GetFirstDevice(cont),
                                                        conn |-> FALSE]]
    /\ WAFrame
    /\ UNCHANGED <<settings, autoJoinLogs, crashed, storeVars, Clients,
                   deviceStore, pairingMu, pairingActive, connectStarts, deleteDone>>

\* ensureClient: m.Clients[accountID] = client
ensureClientStore(t) ==
    /\ ~crashed
    /\ threads[t].pc = "store"
    /\ Clients' = [Clients EXCEPT ![threads[t].acc] = threads[t].client]
    /\ threads' = [threads EXCEPT ![t].pc = "have"]
    /\ WAFrame
    /\ UNCHANGED <<settings, autoJoinLogs, crashed, storeVars, Containers,
                   deviceStore, pairingMu, pairingActive, connectStarts, deleteDone>>

\* StartPairing / RequestPairingCode: if client.Store.ID != nil, "already
\* paired"; otherwise go on to m.pairingMu.Lock()
pairingCheckPaired(t) ==
    /\ ~crashed
    /\ threads[t].pc = "have"
    /\ threads[t].op \in {"StartPairing", "RequestPairingCode"}
    /\ threads' = [threads EXCEPT ![t] =
                      IF Handle(t).dev # NewDevice THEN NoThread ELSE [@ EXCEPT !.pc = "lock"]]
    /\ WAFrame
    /\ UNCHANGED <<settings, autoJoinLogs, crashed, storeVars, Clients, Containers,
                   deviceStore, pairingMu, pairingActive, connectStarts, deleteDone>>

\* m.pairingMu.Lock()
pairingLock(t) ==
    /\ ~crashed
    /\ threads[t].pc = "lock"
    /\ pairingMu = ""
    /\ pairingMu' = t
    /\ threads' = [threads EXCEPT ![t].pc = "locked"]
    /\ WAFrame
    /\ UNCHANGED <<settings, autoJoinLogs, crashed, storeVars, Clients, Containers,
                   deviceStore, pairingActive, connectStarts, deleteDone>>

\* if !m.pairingActive[accountID] { m.pairingActive[accountID] = true;
\* go client.Connect() }
pairingStartConnect(t) ==
    /\ ~crashed
    /\ threads[t].pc = "locked"
    /\ LET a == threads[t].acc
       IN  IF ShouldStartConnect(a)
              THEN /\ pairingActive' = [pairingActive EXCEPT ![a] = TRUE]
                   /\ connectStarts' = [connectStarts EXCEPT ![a] =
                                           IF @ < MaxConnects THEN @ + 1 ELSE @]
                   /\ Clients' = [Clients EXCEPT ![a] =
                                     IF @ # NULL THEN [@ EXCEPT !.conn = TRUE] ELSE @]
              ELSE UNCHANGED <<pairingActive, connectStarts, Clients>>
    /\ threads' = [threads EXCEPT ![t].pc = "unlock"]
    /\ WAFrame
    /\ UNCHANGED <<settings, autoJoinLogs, crashed, storeVars, Containers,
                   deviceStore, pairingMu, deleteDone>>

\* m.pairingMu.Unlock(); the call then waits for the code and returns
pairingUnlock(t) ==
    /\ ~crashed
    /\ threads[t].pc = "unlock"
    /\ pairingMu' = ""
    /\ threads' = [threads EXCEPT ![t] = NoThread]
    /\ WAFrame
    /\ UNCHANGED <<settings, autoJoinLogs, crashed, storeVars, Clients, Containers,
                   deviceStore, pairingActive, connectStarts, deleteDone>>

\* the phone accepts the code of a connected, unpaired handle: the device is
\* saved in the database of the handle's container
PairSuccess(a) ==
    /\ ~crashed
    /\ Clients[a] # NULL
    /\ Clients[a].conn
    /\ Clients[a].dev = NewDevice
    /\ deviceStore' = Append(deviceStore, [db |-> DatabaseFile(Clients[a].cont),
                                           owner |-> a])
    /\ Clients' = [Clients EXCEPT ![a].dev = a]
    /\ WAFrame
    /\ UNCHANGED <<settings, autoJoinLogs, crashed, storeVars, Containers,
                   pairingMu, pairingActive, connectStarts, threads, deleteDone>>

\* ConnectIfPaired after ensureClient: "not paired" when Store.ID is nil,
\* client.Connect() otherwise
connectIfPairedConnect(t) ==
    /\ ~crashed
    /\ threads[t].pc = "have"
    /\ threads[t].op \in {"ConnectIfPaired", "processOneSend"}
    /\ Clients' = [Clients EXCEPT ![threads[t].acc] =
                      IF @ # NULL /\ Handle(t).dev # NewDevice
                         THEN [@ EXCEPT !.conn = TRUE] ELSE @]
    /\ threads' = [threads EXCEPT ![t] = NoThread]
    /\ WAFrame
    /\ UNCHANGED <<settings, autoJoinLogs, crashed, storeVars, Containers,
                   deviceStore, pairingMu, pairingActive, connectStarts, deleteDone>>

\* Manager.Logout after ensureClient: c.Disconnect(), then c.Logout, which
\* removes the device from its database when the server accepts it (ok) and
\* only logs the error otherwise
Logout(t, ok) ==
    /\ ~crashed
    /\ threads[t].pc = "have"
    /\ threads[t].op \in {"handleAccountLogout", "handleDeleteAccount"}
    /\ LET a == threads[t].acc
           h == Handle(t)
           gone(row) == row.db = DatabaseFile(h.cont) /\ row.owner = h.dev
           kept(row) == ~gone(row)
       IN  /\ deviceStore' = IF ok /\ h.dev # NewDevice
                                THEN SelectSeq(deviceStore, kept) ELSE deviceStore
           /\ Clients' = [Clients EXCEPT ![a] =
                             IF @ = NULL THEN @
                             ELSE [@ EXCEPT !.conn = FALSE,
                                            !.dev = IF ok THEN NewDevice ELSE @]]
    /\ threads' = [threads EXCEPT ![t].pc = "drop"]
    /\ WAFrame
    /\ UNCHANGED <<settings, autoJoinLogs, crashed, storeVars, Containers,
                   pairingMu, pairingActive, connectStarts, deleteDone>>

\* Manager.DropAccount: the handle, when there is one, is disconnected and
\* deleted from m.Clients; m.Containers keeps its entry
DropAccount(t) ==
    /\ ~crashed
    /\ threads[t].pc = "drop"
    /\ Clients' = [Clients EXCEPT ![threads[t].acc] = NULL]
    /\ threads' = [threads EXCEPT ![t] =
                      IF @.op = "handleDeleteAccount"
                         THEN [@ EXCEPT !.pc = "deleteRow"] ELSE NoThread]
    /\ WAFrame
    /\ UNCHANGED <<settings, autoJoinLogs, crashed, storeVars, Containers,
                   deviceStore, pairingMu, pairingActive, connectStarts, deleteDone>>

\* handleDeleteAccount: a.Store.DeleteAccount(id), then the response
handleDeleteAccountRow(t) ==
    /\ ~crashed
    /\ threads[t].pc = "deleteRow"
    /\ LET id == threads[t].acc
           gone == CascadedGroups(id)
       IN  /\ accountIds' = accountIds \ {id}
           /\ groupIds' = groupIds \ gone
           /\ groups' = [g \in Groups |-> IF g \in gone THEN NoGroupRow ELSE groups[g]]
           /\ logs' = LogsAfterDelete(id, gone)
           /\ settings' = SettingsAfterDelete(id)
           /\ autoJoinLogs' = AutoJoinLogsAfterDelete(id)
           /\ deleteDone' = deleteDone \cup {id}
    /\ threads' = [threads EXCEPT ![t] = NoThread]
    /\ UNCHANGED <<clock, cfg, accounts, paired, templates, pc, queue, cur, tickSends,
                   lastTick, doneAt, rt, now, lastJoinTime, procs, joins, crashed,
                   BaseDSN, Clients, Containers, deviceStore, pairingMu,
                   pairingActive, connectStarts, moreVars>>

\* m.Clients and m.Containers are plain maps: a write that runs at the same
\* time as another access may make the Go runtime abort the process
ManagerMapFault ==
    /\ ~crashed
    /\ \E t \in Threads, u \in Threads :
          /\ t # u
          /\ threads[t].pc \in {"open", "store", "drop"}
          /\ threads[u].pc \in {"ensure", "open", "store", "drop"}
    /\ crashed' = TRUE
    /\ WAFrame
    /\ UNCHANGED <<settings, autoJoinLogs, storeVars, Clients, Containers, deviceStore,
                   pairingMu, pairingActive, connectStarts, threads, deleteDone>>

\* the calls modelled as running at the same time: one caller pairs by QR,
\* connects and runs the scheduler tick for either account, the other pairs
\* by number, logs out and deletes for the first account
CallsOf ==
    [t \in Threads |->
        IF t = "t1" THEN {"StartPairing", "ConnectIfPaired", "processOneSend"}
                    ELSE {"RequestPairingCode", "handleAccountLogout",
                          "handleDeleteAccount"}]

AccountsOf == [t \in Threads |-> IF t = "t1" THEN Accounts ELSE {"a1"}]

Callers(op) == {t \in Threads : op \in CallsOf[t]}

NextWA ==
    \/ \E t \in Callers("StartPairing"), a \in Accounts :
          a \in AccountsOf[t] /\ StartPairing(t, a)
    \/ \E t \in Callers("RequestPairingCode"), a \in Accounts :
          a \in AccountsOf[t] /\ RequestPairingCode(t, a)
    \/ \E t \in Callers("ConnectIfPaired"), a \in Accounts :
          a \in AccountsOf[t] /\ ConnectIfPaired(t, a)
    \/ \E t \in Callers("handleAccountLogout"), a \in Accounts :
          a \in AccountsOf[t] /\ handleAccountLogout(t, a)
    \/ \E t \in Callers("handleDeleteAccount"), a \in Accounts :
          a \in AccountsOf[t] /\ handleDeleteAccount(t, a)
    \/ \E t \in Callers("processOneSend"), a \in Accounts :
          a \in AccountsOf[t] /\ processOneSend(t, a)
    \/ \E t \in Threads : ensureClientLookup(t)
    \/ \E t \in Threads : ensureClientOpen(t)
    \/ \E t \in Threads : ensureClientStore(t)
    \/ \E t \in Threads : pairingCheckPaired(t)
    \/ \E t \in Threads : pairingLock(t)
    \/ \E t \in Threads : pairingStartConnect(t)
    \/ \E t \in Threads : pairingUnlock(t)
    \/ \E a \in Accounts : PairSuccess(a)
    \/ \E t \in Threads : connectIfPairedConnect(t)
    \/ \E t \in Threads, ok \in BOOLEAN : Logout(t, ok)
    \/ \E t \in Threads : DropAccount(t)
    \/ \E t \in Threads : handleDeleteAccountRow(t)
    \/ ManagerMapFault

SpecWA == InitWA /\ [][NextWA]_vars

-----------------------------------------------------------------------------
(* Pairing by number: Manager.RequestPairingCode behind                    *)
(* handleAccountPairByNumber, and what it writes to the account row        *)

\* what the protocol does once the call is past its own checks: the context
\* ends before the code, PairPhone fails, PairPhone returns an empty code,
\* PairPhone returns a code
PairOutcomes == {"ctx", "err", "empty", "code"}

ErrPairingByNumberUnsupported == "pairing via phone number unsupported by current whatsmeow"

\* Store.UpdateAccountStatus with msisdnOpt:
\* msisdn=COALESCE(NULLIF(?, ''), msisdn)
UpdatedMsisdn(old, opt) == IF opt # <<>> THEN opt ELSE old

\* the client ensureClient returns for the account
EnsuredClient(accountID) ==
    IF Clients[accountID] # NULL THEN Clients[accountID]
    ELSE LET cont == IF Containers[accountID] # NULL THEN Containers[accountID]
                     ELSE perAccountDSN(accountID)
         IN  [cont |-> cont, dev |-> GetFirstDevice(cont), conn |-> FALSE]

\* the error RequestPairingCode returns, "" for nil
RequestPairingCodeErr(accountID, m, outcome) ==
    IF EnsuredClient(accountID).dev # NewDevice THEN "already paired"
    ELSE IF m = <<>> THEN "msisdn required"
    ELSE IF outcome = "ctx" THEN "context deadline exceeded"
    ELSE IF outcome = "err" THEN "PairPhone"
    ELSE ""

\* the row is written whatever the call returns
PairingWritesRow_Always(err) == TRUE

\* UpdateAccountStatus(accountID, "pairing", "", &msisdn) is reached only
\* past every error return
PairingWritesRow(err) == err = ""

\* the response of handleAccountPairByNumber to the Manager's result
PairHTTPStatus(err, outcome) ==
    IF err # ""
       THEN IF err = ErrPairingByNumberUnsupported THEN 501 ELSE 400
       ELSE IF outcome = "empty" THEN 400 ELSE 200

\* POST pair-by-number for an existing account: JSON decode, the empty
\* msisdn answered with 400 before the Manager is called, otherwise
\* RequestPairingCode (ensureClient, the checks, the background Connect
\* started once, PairPhone), the row update and the response
handleAccountPairByNumber(id, m, outcome) ==
    /\ ~crashed
    /\ id \in accountIds
    /\ lastPair.n < MaxPairCalls
    /\ \A t \in Threads : threads[t] = NoThread
    /\ IF m = <<>>
          THEN /\ lastPair' = [n |-> lastPair.n + 1, acc |-> id, req |-> m,
                               err |-> "msisdn required", http |-> 400]
               /\ UNCHANGED <<Clients, Containers, pairingActive, connectStarts,
                              acctStatus, acctMsisdn>>
          ELSE LET client == EnsuredClient(id)
                   err == RequestPairingCodeErr(id, m, outcome)
                   starts == client.dev = NewDevice /\ ShouldStartConnect(id)
               IN  /\ Containers' = [Containers EXCEPT ![id] = client.cont]
                   /\ Clients' = [Clients EXCEPT ![id] =
                                     [client EXCEPT !.conn = @ \/ starts]]
                   /\ pairingActive' = [pairingActive EXCEPT ![id] = @ \/ starts]
                   /\ connectStarts' = [connectStarts EXCEPT ![id] =
                                           IF starts /\ @ < MaxConnects THEN @ + 1 ELSE @]
                   /\ acctStatus' = IF PairingWritesRow(err)
                                       THEN [acctStatus EXCEPT ![id] = StatusPairing]
                                       ELSE acctStatus
                   /\ acctMsisdn' = IF PairingWritesRow(err)
                                       THEN [acctMsisdn EXCEPT ![id] = UpdatedMsisdn(@, m)]
                                       ELSE acctMsisdn
                   /\ lastPair' = [n |-> lastPair.n + 1, acc |-> id, req |-> m,
                                   err |-> err, http |-> PairHTTPStatus(err, outcome)]
    /\ UNCHANGED <<schedVars, rt, joinVars, storeVars, BaseDSN, deviceStore, pairingMu,
                   threads, deleteDone, loopVars, filterVars, callVars, restVars>>

\* the event handler ensureClient installs, on events.Connected of a paired
\* client: UpdateAccountStatus(accountID, "online", "", &Store.ID.User)
eventConnected(a, user) ==
    /\ ~crashed
    /\ a \in accountIds
    /\ Clients[a] # NULL
    /\ Clients[a].conn
    /\ Clients[a].dev # NewDevice
    /\ acctStatus' = [acctStatus EXCEPT ![a] = StatusOnline]
    /\ acctMsisdn' = [acctMsisdn EXCEPT ![a] = UpdatedMsisdn(@, user)]
    /\ UNCHANGED <<schedVars, rt, joinVars, storeVars, waVars, lastPair, loopVars, filterVars, callVars, restVars>>

NextPair ==
    \/ \E id \in Accounts, m \in MsisdnInputs, outcome \in PairOutcomes :
          handleAccountPairByNumber(id, m, outcome)
    \/ \E a \in Accounts : PairSuccess(a)
    \/ \E a \in Accounts, user \in MsisdnInputs \ {<<>>} : eventConnected(a, user)

SpecPair == InitWA /\ [][NextPair]_vars

-----------------------------------------------------------------------------
(* Scheduler lifecycle: Start, Stop, the context and the loop goroutines   *)
(* pc = "off" stands for: the goroutine whose ticks the scheduler actions  *)
(* describe has not been started or has returned                           *)

\* no guard: every Start spawns a loop
StartReturnsEarly_Never == FALSE

\* if s.running { return }
StartReturnsEarly == running

\* New has run, Start has not: two enabled, paired accounts with one enabled
\* group each and one text template
InitLoop ==
    /\ clock = StartClock
    /\ cfg = [alwaysOn |-> FALSE, cooldownHr |-> DefaultCooldownHr,
              riskThreshold |-> DefaultRiskThreshold]
    /\ accounts = [a \in Accounts |-> [enabled |-> TRUE, daily_limit |-> DefaultDailyLimit]]
    /\ paired = [a \in Accounts |-> TRUE]
    /\ groups = [g \in Groups |->
                   [account_id |-> OwnerOf[g], enabled |-> TRUE,
                    risk_score |-> 0, last_sent_at |-> NULL,
                    name |-> <<>>]]
    /\ templates = {TplText}
    /\ logs = <<>>
    /\ pc = "off"
    /\ queue = <<>>
    /\ cur = NoSend
    /\ tickSends = <<>>
    /\ lastTick = "none"
    /\ doneAt = [g \in Groups |-> NULL]
    /\ rt = NoRetry
    /\ JoinOff
    /\ StoreFull
    /\ WAOff
    /\ PairOff
    /\ FilterOff
    /\ CallOff
    /\ RestOff
    /\ running = FALSE
    /\ stopClosed = FALSE
    /\ ctxDone = FALSE
    /\ loops = 0

\* Scheduler.Start: return when running is set; otherwise set it and spawn
\* a goroutine running loop
Start ==
    /\ ~crashed
    /\ loops < MaxLoops
    /\ IF StartReturnsEarly
          THEN UNCHANGED <<running, loops, pc>>
          ELSE /\ running' = TRUE
               /\ loops' = loops + 1
               /\ pc' = IF pc = "off" /\ ~stopClosed /\ ~ctxDone THEN "idle" ELSE pc
    /\ UNCHANGED <<clock, cfg, accounts, paired, groups, templates, logs, queue, cur,
                   tickSends, lastTick, doneAt, rt, joinVars, storeVars, waVars, pairVars, filterVars, callVars, restVars,
                   stopClosed, ctxDone>>

\* Scheduler.Stop: return when running is clear; otherwise close(s.stop),
\* which panics on a channel that is already closed, and clear running
Stop ==
    /\ ~crashed
    /\ IF ~running
          THEN UNCHANGED <<running, stopClosed, crashed>>
          ELSE IF stopClosed
                  THEN crashed' = TRUE /\ UNCHANGED <<running, stopClosed>>
                  ELSE /\ stopClosed' = TRUE
                       /\ running' = FALSE
                       /\ UNCHANGED crashed
    /\ UNCHANGED <<schedVars, rt, now, settings, autoJoinLogs, lastJoinTime, procs, joins,
                   storeVars, waVars, pairVars, filterVars, callVars, restVars, ctxDone, loops>>

\* the context handed to Start is cancelled
CtxCancel ==
    /\ ~crashed
    /\ ~ctxDone
    /\ ctxDone' = TRUE
    /\ UNCHANGED <<schedVars, rt, joinVars, storeVars, waVars, pairVars, filterVars, callVars, restVars, running,
                   stopClosed, loops>>

\* loop: the goroutine is at its select, case <-s.stop or case <-ctx.Done()
\* is taken, it returns and the deferred function clears running
LoopExit ==
    /\ ~crashed
    /\ pc = "idle"
    /\ stopClosed \/ ctxDone
    /\ pc' = "off"
    /\ loops' = loops - 1
    /\ running' = FALSE
    /\ UNCHANGED <<clock, cfg, accounts, paired, groups, templates, logs, queue, cur,
                   tickSends, lastTick, doneAt, rt, joinVars, storeVars, waVars, pairVars, filterVars, callVars, restVars,
                   stopClosed, ctxDone>>

\* loop of a goroutine spawned after the stop channel was closed or the
\* context cancelled: its first select finds that case ready, its ticker
\* has not fired yet, it returns and the deferred function clears running
LoopExitAtFirstSelect ==
    /\ ~crashed
    /\ loops > (IF pc = "off" THEN 0 ELSE 1)
    /\ stopClosed \/ ctxDone
    /\ loops' = loops - 1
    /\ running' = FALSE
    /\ UNCHANGED <<schedVars, rt, joinVars, storeVars, waVars, pairVars, filterVars, callVars, restVars, stopClosed,
                   ctxDone>>

NextLoop ==
    \/ ~crashed /\ TickSkip
    \/ ~crashed /\ TickBegin(MaxLoopLogs)
    \/ ~crashed /\ TickEnd
    \/ ~crashed /\ SkipAccount
    \/ ~crashed /\ SkipAccountConnectError
    \/ ~crashed /\ SelectAndSend(MaxLoopLogs)
    \/ ~crashed /\ SendPartFail
    \/ ~crashed /\ SendPartOk
    \/ ~crashed /\ SendPartOkSleepCancelled
    \/ ~crashed /\ SleepThenReturn
    \/ ~crashed /\ SleepThenContinue
    \/ ~crashed /\ Advance
    \/ \E g \in Groups, en \in BOOLEAN : ~crashed /\ ToggleGroup(g, en)
    \/ Start
    \/ Stop
    \/ CtxCancel
    \/ LoopExit
    \/ LoopExitAtFirstSelect

SpecLoop == InitLoop /\ [][NextLoop]_vars

-----------------------------------------------------------------------------
(* Filter.ShouldJoin as a function of its arguments                        *)

\* whitelist_contacts and blacklist_keywords as ParseJSONArray builds them:
\* no empty entry
WhitelistInputs == {<<>>, << <<"S", "1">> >>, << <<"x", "9">>, <<"s", "1">> >>}

BlacklistInputs == {<<>>, << <<"s", "p", "a", "m">> >>, << <<"J", "u">>, <<"o", "k">> >>}

SenderInputs == {<<>>, <<"s", "1">>, <<"S", "1">>, <<"t", "2">>}

GroupNameInputs == {<<>>, <<"S", "p", "a", "m">>, <<"a", "j", "U">>, <<"N">>}

FilterInputs ==
    [f : [enabled : BOOLEAN, daily_limit : 1..MaxJoinLimit, preview_before_join : {TRUE},
          whitelist_contacts : WhitelistInputs, blacklist_keywords : BlacklistInputs],
     senderJID : SenderInputs, groupName : GroupNameInputs, joinsToday : 0..MaxJoinLimit]

InitFilter ==
    /\ clock = StartClock
    /\ cfg = [alwaysOn |-> FALSE, cooldownHr |-> DefaultCooldownHr,
              riskThreshold |-> DefaultRiskThreshold]
    /\ accounts = [a \in Accounts |-> [enabled |-> TRUE, daily_limit |-> DefaultDailyLimit]]
    /\ paired = [a \in Accounts |-> FALSE]
    /\ groups = [g \in Groups |->
                   [account_id |-> OwnerOf[g], enabled |-> FALSE,
                    risk_score |-> 0, last_sent_at |-> NULL,
                    name |-> <<>>]]
    /\ templates = {}
    /\ logs = <<>>
    /\ pc = "idle"
    /\ queue = <<>>
    /\ cur = NoSend
    /\ tickSends = <<>>
    /\ lastTick = "none"
    /\ doneAt = [g \in Groups |-> NULL]
    /\ rt = NoRetry
    /\ JoinOff
    /\ StoreFull
    /\ WAOff
    /\ PairOff
    /\ LoopStarted
    /\ fltArgs \in FilterInputs
    /\ fltRet = "none"
    /\ CallOff
    /\ RestOff

\* should, reason := filter.ShouldJoin(senderJID, groupName, joinsToday)
CallShouldJoin ==
    /\ fltRet = "none"
    /\ fltRet' = ShouldJoin(fltArgs.f, fltArgs.senderJID, fltArgs.groupName,
                            fltArgs.joinsToday)
    /\ UNCHANGED <<schedVars, rt, joinVars, storeVars, waVars, pairVars, loopVars, fltArgs, callVars, restVars>>

NextFilter == CallShouldJoin

SpecFilter == InitFilter /\ [][NextFilter]_vars

-----------------------------------------------------------------------------
(* Functions of the program checked on their arguments: the program at     *)
(* rest, one call under observation; a result v is kept as <<v>>           *)

\* everything but the observed call is at rest
QuietProgram ==
    /\ clock = StartClock
    /\ cfg = [alwaysOn |-> FALSE, cooldownHr |-> DefaultCooldownHr,
              riskThreshold |-> DefaultRiskThreshold]
    /\ accounts = [a \in Accounts |-> [enabled |-> TRUE, daily_limit |-> DefaultDailyLimit]]
    /\ paired = [a \in Accounts |-> FALSE]
    /\ groups = [g \in Groups |->
                   [account_id |-> OwnerOf[g], enabled |-> FALSE,
                    risk_score |-> 0, last_sent_at |-> NULL,
                    name |-> <<>>]]
    /\ templates = {}
    /\ logs = <<>>
    /\ pc = "idle"
    /\ queue = <<>>
    /\ cur = NoSend
    /\ tickSends = <<>>
    /\ lastTick = "none"
    /\ doneAt = [g \in Groups |-> NULL]
    /\ rt = NoRetry
    /\ JoinOff
    /\ StoreFull
    /\ WAOff
    /\ PairOff
    /\ LoopStarted
    /\ FilterOff
    /\ RestOff

-----------------------------------------------------------------------------
(* detector: ExtractInviteCodes                                            *)

HttpsScheme == <<"h", "t", "t", "p", "s", ":", "/", "/">>

HttpScheme == <<"h", "t", "t", "p", ":", "/", "/">>

LinkHost == <<"c", "h", "a", "t", ".", "w", "h", "a", "t", "s", "a", "p", "p", ".",
              "c", "o", "m", "/">>

\* the literal prefixes of groupLinkPattern, https?://chat\.whatsapp\.com/
groupLinkPattern == {HttpsScheme \o LinkHost, HttpScheme \o LinkHost}

\* the literal prefix of groupLinkPatternAlt, chat\.whatsapp\.com/
groupLinkPatternAlt == {LinkHost}

\* the length of the longest run of [A-Za-z0-9] that starts at position i
RECURSIVE AlnumRun(_, _)
AlnumRun(text, i) ==
    IF i > Len(text) \/ ~IsAlnum(text[i]) THEN 0 ELSE 1 + AlnumRun(text, i + 1)

\* the pattern matches at position i: one of its prefixes, then ([A-Za-z0-9]+)
MatchesAt(text, pattern, i) ==
    {lit \in pattern : /\ i + Len(lit) - 1 <= Len(text)
                       /\ SubSeq(text, i, i + Len(lit) - 1) = lit
                       /\ AlnumRun(text, i + Len(lit)) > 0}

\* FindAllStringSubmatch(text, -1): the leftmost matches from position i on,
\* none overlapping another; of each match the place and the text of group 1
RECURSIVE FindAllStringSubmatch(_, _, _)
FindAllStringSubmatch(text, pattern, i) ==
    IF i > Len(text) THEN <<>>
    ELSE IF MatchesAt(text, pattern, i) = {}
            THEN FindAllStringSubmatch(text, pattern, i + 1)
            ELSE LET lit == CHOOSE l \in MatchesAt(text, pattern, i) : TRUE
                     from == i + Len(lit)
                     n == AlnumRun(text, from)
                 IN  <<[at |-> from, code |-> SubSeq(text, from, from + n - 1)]>>
                        \o FindAllStringSubmatch(text, pattern, from + n)

\* the loop over the matches: a code is appended unless seen[code]
RECURSIVE AppendUnseen(_, _)
AppendUnseen(codes, matches) ==
    IF matches = <<>> THEN codes
    ELSE AppendUnseen(IF \E k \in 1..Len(codes) : codes[k] = Head(matches).code
                         THEN codes ELSE Append(codes, Head(matches).code),
                      Tail(matches))

\* nil for the empty text; the codes of groupLinkPattern; those of
\* groupLinkPatternAlt only if len(codes) == 0
ExtractInviteCodes(text) ==
    IF text = <<>> THEN <<>>
    ELSE LET codes == AppendUnseen(<<>>, FindAllStringSubmatch(text, groupLinkPattern, 1))
         IN  IF Len(codes) = 0
                THEN AppendUnseen(<<>>, FindAllStringSubmatch(text, groupLinkPatternAlt, 1))
                ELSE codes

\* message texts: up to MaxPieces pieces, each a scheme, the host with its
\* slash, a letter or a blank
TextPieces == {HttpsScheme, LinkHost, <<"a">>, <<"b">>, <<" ">>}

RECURSIVE Concat(_)
Concat(pieces) == IF pieces = <<>> THEN <<>> ELSE Head(pieces) \o Concat(Tail(pieces))

MessageTexts == {Concat(ps) : ps \in UNION {[1..n -> TextPieces] : n \in 0..MaxPieces}}

InitExtract ==
    /\ QuietProgram
    /\ fnArgs \in MessageTexts
    /\ fnRet = NoResult

\* codes := ExtractInviteCodes(text)
CallExtractInviteCodes ==
    /\ fnRet = NoResult
    /\ fnRet' = <<ExtractInviteCodes(fnArgs)>>
    /\ UNCHANGED <<schedVars, rt, joinVars, storeVars, waVars, pairVars, loopVars,
                   filterVars, restVars, fnArgs>>

NextExtract == CallExtractInviteCodes

SpecExtract == InitExtract /\ [][NextExtract]_vars

-----------------------------------------------------------------------------
(* HandleMessage on a message that carries several links *)

\* HasGroupLink: either pattern matches somewhere in the text
HasGroupLink(text) ==
    \/ FindAllStringSubmatch(text, groupLinkPattern, 1) # <<>>
    \/ FindAllStringSubmatch(text, groupLinkPatternAlt, 1) # <<>>

OneLinkText == HttpsScheme \o LinkHost \o CodeA

TwoLinkText == HttpsScheme \o LinkHost \o CodeA \o <<" ">> \o HttpsScheme \o LinkHost \o CodeB

LinkTexts == {OneLinkText, TwoLinkText}

\* both handlers serve account a1, which has the plain enabled settings row
InitLinks ==
    /\ InitJoin
    /\ settings = [a \in Accounts |-> PlainSettings]

\* the texts a handler receives: the first one any text, the second one a
\* message with one link
TextsOf == [p \in Procs |-> IF p = "p1" THEN LinkTexts ELSE {OneLinkText}]

\* HandleMessage: text with a group link; codes := ExtractInviteCodes(text);
\* the loop's first ProcessInviteCode call starts
HandleMessageLinks(p, a, text, sender) ==
    /\ ~crashed
    /\ procs[p].pc = "idle"
    /\ pending[p] = NoMessage
    /\ text # <<>>
    /\ HasGroupLink(text)
    /\ LET codes == ExtractInviteCodes(text)
       IN  /\ Len(codes) # 0
           /\ pending' = [pending EXCEPT ![p] = [acc |-> a, sender |-> sender, text |-> text,
                                                 found |-> codes,
                                                 codes |-> Tail(codes)]]
           /\ procs' = [procs EXCEPT ![p] = [NoProc EXCEPT !.pc = "start", !.acc = a,
                                                          !.code = Head(codes),
                                                          !.sharedBy = sender,
                                                          !.ctx = "background",
                                                          !.dup = DuplicateCall(a, Head(codes))]]
    /\ UNCHANGED <<schedVars, rt, storeVars, waVars, pairVars, loopVars, filterVars, callVars,
                   now, settings, autoJoinLogs, lastJoinTime, joins, crashed>>

\* HandleMessage: for _, code := range codes: the previous ProcessInviteCode
\* call has returned (its group sync goroutine, if any, runs on its own) and
\* the next one starts
HandleMessageNextLink(p) ==
    /\ ~crashed
    /\ procs[p].pc \in {"done", "sync"}
    /\ pending[p].codes # <<>>
    /\ LET code == Head(pending[p].codes)
       IN  /\ pending' = [pending EXCEPT ![p].codes = Tail(@)]
           /\ procs' = [procs EXCEPT ![p] = [NoProc EXCEPT !.pc = "start",
                                                          !.acc = pending[p].acc,
                                                          !.code = code,
                                                          !.sharedBy = pending[p].sender,
                                                          !.ctx = "background",
                                                          !.dup = DuplicateCall(pending[p].acc, code)]]
    /\ UNCHANGED <<schedVars, rt, storeVars, waVars, pairVars, loopVars, filterVars, callVars,
                   now, settings, autoJoinLogs, lastJoinTime, joins, crashed>>

\* HandleMessage has returned: the loop over the codes is over
HandleMessageReturned(p) ==
    /\ pending[p] # NoMessage
    /\ pending[p].codes = <<>>
    /\ procs[p].pc \in {"done", "sync"}

NextLinks ==
    \/ \E p \in Procs : \E text \in TextsOf[p] : HandleMessageLinks(p, "a1", text, SenderS1)
    \/ \E p \in Procs : HandleMessageNextLink(p)
    \/ \E p \in Procs : JStart(p)
    \/ \E p \in Procs : JPreviewAndFilter(p)
    \/ \E p \in Procs : JCheckRateLimit(p)
    \/ \E p \in Procs : JCheckAlreadyJoined(p)
    \/ \E p \in Procs : JWaitForRateLimit(p)
    \/ \E p \in Procs : JWake(p)
    \/ \E p \in Procs : JJoinGroup(p)
    \/ \E p \in Procs : JLogJoined(p)
    \/ \E p \in Procs : JStampLastJoinTime(p)
    \/ \E p \in Procs : SyncGroupsAfterJoin(p)
    \/ ConcurrentMapFault
    \/ Tick

SpecLinks == InitLinks /\ [][NextLinks]_vars

-----------------------------------------------------------------------------
(* The text part of a send: the text handed to the protocol and the preview logged *)

GroupNamePlaceholder == <<"{", "g", "r", "o", "u", "p", "_", "n", "a", "m", "e", "}">>

TimeNowPlaceholder == <<"{", "t", "i", "m", "e", "_", "n", "o", "w", "}">>

HasPrefixAt(text, i, old) ==
    /\ i + Len(old) - 1 <= Len(text)
    /\ SubSeq(text, i, i + Len(old) - 1) = old

\* strings.NewReplacer("{group_name}", groupName, "{time_now}", timeNow).Replace:
\* left to right, at each position the first old string that matches is replaced
RECURSIVE ReplaceFrom(_, _, _, _)
ReplaceFrom(text, i, groupName, timeNow) ==
    LET hits == {j \in i..Len(text) : \/ HasPrefixAt(text, j, GroupNamePlaceholder)
                                      \/ HasPrefixAt(text, j, TimeNowPlaceholder)}
    IN  IF hits = {} THEN SubSeq(text, i, Len(text))
        ELSE LET j == CHOOSE h \in hits : \A k \in hits : h <= k
             IN  IF HasPrefixAt(text, j, GroupNamePlaceholder)
                    THEN SubSeq(text, i, j - 1) \o groupName
                         \o ReplaceFrom(text, j + Len(GroupNamePlaceholder), groupName, timeNow)
                    ELSE SubSeq(text, i, j - 1) \o timeNow
                         \o ReplaceFrom(text, j + Len(TimeNowPlaceholder), groupName, timeNow)

\* personalize(text, groupName), at local time timeNow ("15:04" format)
personalize(text, groupName, timeNow) ==
    IF text = <<>> THEN text ELSE ReplaceFrom(text, 1, groupName, timeNow)

\* short(s): the first 128 characters
short(s) == IF Len(s) <= 128 THEN s ELSE SubSeq(s, 1, 128)

TextOnlyLabel == <<"t", "e", "x", "t", "-", "o", "n", "l", "y", ":">>

\* the log row of the text part: failed rows carry short(text) of the
\* personalized text, sent rows "text-only:"+short(content.TextOnly)
TextPartPreview(textOnly, text, ok) ==
    IF ok THEN TextOnlyLabel \o short(textOnly) ELSE short(text)

Filler == [i \in 1..64 |-> "x"]

TemplatePieces == {GroupNamePlaceholder, TimeNowPlaceholder, <<"h">>, <<" ">>, Filler}

TemplateTexts == {Concat(ps) : ps \in UNION {[1..n -> TemplatePieces] : n \in 0..MaxTemplatePieces}}

StoredGroupNames == {<<>>, <<"T", "o", "k", "o">>}

ClockTexts == {<<"0", "8", ":", "3", "9">>}

InitTextPart ==
    /\ QuietProgram
    /\ fnArgs \in [textOnly : TemplateTexts, groupName : StoredGroupNames, timeNow : ClockTexts]
    /\ fnRet = NoResult

\* SendToGroupWithSession, step 1: a non-blank text_only is personalized and
\* sent with retries; the outcome is logged with its preview
SendTextPart(ok) ==
    /\ fnRet = NoResult
    /\ TrimSpace(fnArgs.textOnly) # <<>>
    /\ LET text == personalize(fnArgs.textOnly, fnArgs.groupName, fnArgs.timeNow)
       IN  fnRet' = <<[sent |-> text,
                       status |-> IF ok THEN "sent" ELSE "failed",
                       preview |-> TextPartPreview(fnArgs.textOnly, text, ok)]>>
    /\ UNCHANGED <<schedVars, rt, joinVars, storeVars, waVars, pairVars, loopVars,
                   filterVars, restVars, fnArgs>>

NextTextPart == \E ok \in BOOLEAN : SendTextPart(ok)

SpecTextPart == InitTextPart /\ [][NextTextPart]_vars

-----------------------------------------------------------------------------
(* The connection step of ConnectIfPaired and of SendToGroupWithSession *)

\* the error Connect returns on a socket that is connected
ErrAlreadyConnected == ErrorString(<<"w", "e", "b", "s", "o", "c", "k", "e", "t", " ", "i", "s", " ", "a", "l", "r", "e", "a", "d", "y", " ", "c", "o", "n", "n", "e", "c", "t", "e", "d">>)

\* errors Connect returns when the socket could not be opened
DialErrors ==
    { ErrorString(<<"i", "/", "o", " ", "t", "i", "m", "e", "o", "u", "t">>),
      ErrorString(<<"E", "O", "F">>),
      ErrorString(<<"c", "o", "n", "n", "e", "c", "t", "i", "o", "n", " ", "r", "e", "f", "u", "s", "e", "d">>),
      ErrorString(<<"s", "o", "c", "k", "e", "t", " ", "i", "s", " ", "n", "o", "t", " ", "c", "o", "n", "n", "e", "c", "t", "e", "d">>),
      ErrorString(<<"D", "i", "s", "c", "o", "n", "n", "e", "c", "t", "e", "d">>),
      ErrorString(<<"a", "d", "d", "r", "e", "s", "s", " ", "a", "l", "r", "e", "a", "d", "y", " ", "i", "n", " ", "u", "s", "e">>),
      ErrorString(<<"n", "o", " ", "s", "u", "c", "h", " ", "h", "o", "s", "t">>),
      ErrorString(<<"h", "a", "n", "d", "s", "h", "a", "k", "e", " ", "f", "a", "i", "l", "e", "d">>) }

\* what one Connect call does: its error and whether the socket is connected
\* afterwards
ConnectOutcomes ==
    {[err |-> ErrAlreadyConnected, conn |-> TRUE], [err |-> NoError, conn |-> TRUE]}
        \cup {[err |-> e, conn |-> FALSE] : e \in DialErrors}

\* ls := strings.ToLower(err.Error());
\* strings.Contains(ls, "already") || strings.Contains(ls, "connected")
ConnectErrorTolerated(err) ==
    LET ls == ToLower(err.text)
    IN  \/ Contains(ls, <<"a", "l", "r", "e", "a", "d", "y">>)
        \/ Contains(ls, <<"c", "o", "n", "n", "e", "c", "t", "e", "d">>)

ErrNotPaired == ErrorString(<<"n", "o", "t", " ", "p", "a", "i", "r", "e", "d">>)

\* fmt.Errorf("connect: %w", err)
WrapConnect(err) == ErrorString(<<"c", "o", "n", "n", "e", "c", "t", ":", " ">> \o err.text)

InitConnect ==
    /\ QuietProgram
    /\ fnArgs \in [account : Accounts, paired : BOOLEAN, outcome : ConnectOutcomes]
    /\ fnRet = NoResult

\* Manager.ConnectIfPaired: "not paired" before any Connect; a Connect error
\* is returned unless its text is tolerated
CallConnectIfPaired ==
    /\ fnRet = NoResult
    /\ fnRet' = <<IF ~fnArgs.paired
                     THEN [op |-> "ConnectIfPaired", err |-> ErrNotPaired, connectCalled |-> FALSE]
                     ELSE [op |-> "ConnectIfPaired",
                           err |-> IF fnArgs.outcome.err # NoError
                                      /\ ~ConnectErrorTolerated(fnArgs.outcome.err)
                                      THEN fnArgs.outcome.err ELSE NoError,
                           connectCalled |-> TRUE]>>
    /\ UNCHANGED <<schedVars, rt, joinVars, storeVars, waVars, pairVars, loopVars,
                   filterVars, restVars, fnArgs>>

\* SendToGroupWithSession up to START_CAMPAIGN: unpaired handle, then
\* cli.Connect() with the same tolerance; NoError means the parts are sent
CallSendToGroupConnect ==
    /\ fnRet = NoResult
    /\ fnRet' = <<IF ~fnArgs.paired
                     THEN [op |-> "SendToGroup", err |-> ErrNotPaired, connectCalled |-> FALSE]
                     ELSE [op |-> "SendToGroup",
                           err |-> IF fnArgs.outcome.err # NoError
                                      /\ ~ConnectErrorTolerated(fnArgs.outcome.err)
                                      THEN WrapConnect(fnArgs.outcome.err) ELSE NoError,
                           connectCalled |-> TRUE]>>
    /\ UNCHANGED <<schedVars, rt, joinVars, storeVars, waVars, pairVars, loopVars,
                   filterVars, restVars, fnArgs>>

NextConnect ==
    \/ CallConnectIfPaired
    \/ CallSendToGroupConnect

SpecConnect == InitConnect /\ [][NextConnect]_vars

-----------------------------------------------------------------------------
(* ProcessInviteCode invocations on codes of every length class *)

\* 31 characters: one more than ValidateInviteCode accepts
CodeLong == CodeA \o CodeB \o CodeA \o <<"x">>

InvokeCodes == {CodeA, CodeADecorated, CodeShort, CodeLong}

\* the position of an invocation in ProcessInviteCode, in program order
StepRank(at) ==
    CASE at = "idle" -> 0
      [] at = "start" -> 1
      [] at = "preview" -> 2
      [] at = "rate" -> 3
      [] at = "dup" -> 4
      [] at = "wait" -> 5
      [] at = "sleep" -> 6
      [] at = "join" -> 7
      [] at = "log" -> 8
      [] at = "stamp" -> 9
      [] at = "sync" -> 10
      [] at = "done" -> 11

NextInvoke ==
    \/ \E p \in Procs, code \in InvokeCodes : HandleMessage(p, "a1", code, SenderS1)
    \/ \E p \in Procs : JStart(p)
    \/ \E p \in Procs : JPreviewAndFilter(p)
    \/ \E p \in Procs : JCheckRateLimit(p)
    \/ \E p \in Procs : JCheckAlreadyJoined(p)
    \/ \E p \in Procs : JWaitForRateLimit(p)
    \/ \E p \in Procs : JWake(p)
    \/ \E p \in Procs : JJoinGroup(p)
    \/ \E p \in Procs : JLogJoined(p)
    \/ \E p \in Procs : JStampLastJoinTime(p)
    \/ \E p \in Procs : SyncGroupsAfterJoin(p)
    \/ ConcurrentMapFault
    \/ Tick

SpecInvoke == InitJoin /\ [][NextInvoke]_vars

-----------------------------------------------------------------------------
(* Properties *)

\* sent rows of account a dated in the local (WIB) day of the current clock
countSentLocalDayForAccount(a) ==
    Cardinality({i \in 1..Len(logs) :
        /\ logs[i].account_id = a
        /\ logs[i].status = "sent"
        /\ WIBDay(logs[i].ts) = WIBDay(clock)})

\* C1: in every Scheduler tick the Sender is invoked for at most one
\* (account, group) pair; once the first invocation has returned, with or
\* without error, the tick tries no other account.
C1_OneSendPerTick == Len(tickSends) <= 1

\* C2: a group whose last fully delivered scheduled send completed at t1 is
\* not selected by a Scheduler tick at any time t2 with t2 - t1 below the
\* cooldown (CooldownHours, in minutes of the clock).
C2_CooldownEnforced ==
    pc = "sending" =>
        \/ doneAt[cur.grp] = NULL
        \/ clock - doneAt[cur.grp][1] >= cfg.cooldownHr * 60

\* C3: after an invocation in which every part succeeded, the group's
\* last_sent_at is the completion time of that invocation.
C3_LastSentAtSet ==
    \A g \in Groups : doneAt[g] # NULL => groups[g].last_sent_at = doneAt[g]

\* C4: at the moment a tick has selected a send for an account (the Sender is
\* invoked and no part has been handed over yet), the account's sent rows of
\* the current local (WIB) day do not exceed its daily_limit, a stored
\* limit <= 0 counting as 100.
C4_DailyQuotaLocalDay ==
    (pc = "sending" /\ cur.handed = <<>>) =>
        countSentLocalDayForAccount(cur.acc)
            <= EffectiveDailyLimit(accounts[cur.acc].daily_limit)

\* C5: every group whose risk_score is at or above the risk threshold is
\* disabled, and the group a tick is sending to has a risk_score below it.
C5_RiskPausedInvariant ==
    /\ \A g \in Groups : groups[g].risk_score >= riskThreshold => ~groups[g].enabled
    /\ (pc = "sending" /\ cur.handed = <<>>) =>
           groups[cur.grp].risk_score < riskThreshold

\* C6: when an operator re-enables a group that was auto-paused at the risk
\* threshold, the group is eligible again: once its cooldown permits, it is
\* among the groups pickOneEligibleGroup can return for its account.
C6_ReenableMakesEligible ==
    [][\A g \in Groups :
          (/\ ~groups[g].enabled
           /\ groups[g].risk_score >= riskThreshold
           /\ groups'[g].enabled
           /\ \/ groups'[g].last_sent_at = NULL
              \/ groups'[g].last_sent_at[1] < clock' - cfg'.cooldownHr * 60)
          => (g \in pickOneEligibleGroup(groups[g].account_id, cfg.cooldownHr,
                                         cfg.riskThreshold))']_vars

KindRank(k) ==
    CASE k = "text" -> 1
      [] k = "image" -> 2
      [] k = "video" -> 3
      [] k = "audio" -> 4
      [] k = "sticker" -> 5
      [] k = "doc" -> 6

UrlsOfKind(content, k) ==
    CASE k = "text" -> <<"">>
      [] k = "image" -> content.ImageURLs
      [] k = "video" -> content.VideoURLs
      [] k = "audio" -> content.AudioURLs
      [] k = "sticker" -> content.StickerURLs
      [] k = "doc" -> content.DocURLs

MediaKinds == {"image", "video", "audio", "sticker", "doc"}

UrlPos(content, p) ==
    CHOOSE n \in 1..Len(UrlsOfKind(content, p.kind)) :
        UrlsOfKind(content, p.kind)[n] = p.url

HandedBefore(j, k, n) ==
    \E i \in 1..(j - 1) :
        /\ cur.handed[i].kind = k
        /\ UrlPos(cur.content, cur.handed[i]) = n

\* C7: within one Sender invocation the parts are handed over in the order
\* text_only (only if non-blank), images in list order, videos, audios,
\* stickers, documents: a part is handed over only after the text part and
\* every URL of the earlier kinds and the earlier URLs of its own kind, each
\* part once, and a successful invocation has handed over all of them.
C7_SendOrder ==
    /\ \A j \in 1..Len(cur.handed) :
          LET p == cur.handed[j] IN
          /\ p.kind = "text" => TrimSpace(cur.content.TextOnly) # <<>> /\ j = 1
          /\ (p.kind # "text" /\ TrimSpace(cur.content.TextOnly) # <<>>) =>
                 cur.handed[1].kind = "text"
          /\ \A k \in MediaKinds :
                KindRank(k) < KindRank(p.kind) =>
                   \A n \in 1..Len(UrlsOfKind(cur.content, k)) : HandedBefore(j, k, n)
          /\ p.kind \in MediaKinds =>
                \A n \in 1..(UrlPos(cur.content, p) - 1) : HandedBefore(j, p.kind, n)
          /\ \A i \in 1..(j - 1) : cur.handed[i] # p
    /\ cur.result = "ok" =>
          Len(cur.handed) =
              (IF TrimSpace(cur.content.TextOnly) # <<>> THEN 1 ELSE 0)
              + Len(cur.content.ImageURLs) + Len(cur.content.VideoURLs)
              + Len(cur.content.AudioURLs) + Len(cur.content.StickerURLs)
              + Len(cur.content.DocURLs)

\* a successful invocation that handed over a text part and every media kind
C7_Witness ==
    /\ cur.result = "ok"
    /\ Len(cur.handed) = 7
    /\ cur.handed[1].kind = "text"
    /\ cur.handed[3].url = "i2"
    /\ cur.handed[7].kind = "doc"

\* The classification of errors as the specification words it: HTTP 429 or
\* 5xx, or a message containing timeout, temporary, eof, reset or deadline
\* (letters compared without regard to case)
SpecRetryable(err) ==
    /\ err.type # "nil"
    /\ \/ err.type = "http" /\ (err.code = 429 \/ (err.code >= 500 /\ err.code <= 599))
       \/ \E w \in RetryableWords : Contains(ToLower(err.text), w)

\* C8: each part is attempted at least once and at most maxAttempts (3)
\* times; an attempt after the first happens only after an error classified
\* as retryable, and any other error ends the part at that attempt
C8_RetryBudget ==
    /\ rt.pc = "done" => rt.calls >= 1
    /\ rt.calls <= maxAttempts
    /\ \A k \in 2..rt.calls : SpecRetryable(rt.script[k - 1])
    /\ \A k \in 1..rt.calls :
          (rt.script[k] # NoError /\ ~SpecRetryable(rt.script[k]))
             => (rt.calls = k /\ rt.pc = "done" /\ rt.ret = rt.script[k])

\* the budget is used up: a third attempt made after two retryable errors fails
C8_Witness ==
    /\ rt.pc = "done"
    /\ rt.calls = maxAttempts
    /\ rt.attempt = maxAttempts
    /\ isRetryable(rt.ret)

\* C9: for every (account_id, invite_code) at most one auto_join_logs row
\* with status joined exists, in every interleaving of ProcessInviteCode
\* invocations
C9_JoinedAtMostOnce ==
    \A i \in 1..Len(autoJoinLogs), j \in 1..Len(autoJoinLogs) :
        (/\ autoJoinLogs[i].status = "joined"
         /\ autoJoinLogs[j].status = "joined"
         /\ autoJoinLogs[i].account_id = autoJoinLogs[j].account_id
         /\ autoJoinLogs[i].invite_code = autoJoinLogs[j].invite_code) => i = j

\* C10: for every account, any two successful protocol joins made by
\* ProcessInviteCode are at least minInterval (3 seconds) apart
C10_RateLimitGap ==
    \A i \in 1..Len(joins), j \in 1..Len(joins) :
        (i < j /\ joins[i].account_id = joins[j].account_id)
            => joins[j].at - joins[i].at >= minInterval

\* C11: an invocation made with auto-join enabled for a code that already
\* has a joined row for the account makes no protocol call (neither preview
\* nor join) and ends with exactly one new row, skipped / already_joined
C11_DuplicateSkippedNoCall ==
    [][\A p \in Procs :
          procs[p].dup =>
             /\ ~procs'[p].called
             /\ procs'[p].pc = "done" =>
                   /\ Len(autoJoinLogs') = Len(autoJoinLogs) + 1
                   /\ autoJoinLogs'[Len(autoJoinLogs')].account_id = procs[p].acc
                   /\ autoJoinLogs'[Len(autoJoinLogs')].invite_code = procs[p].code
                   /\ autoJoinLogs'[Len(autoJoinLogs')].status = "skipped"
                   /\ autoJoinLogs'[Len(autoJoinLogs')].reason = "already_joined"]_vars

\* C12: for every account the joined rows of auto_join_logs dated today
\* never exceed the account's auto-join daily_limit
C12_JoinDailyQuota ==
    \A a \in Accounts : countJoinsToday(a) <= loadSettings(a).daily_limit

\* C13: ProcessInviteCode never performs a protocol join into a group whose
\* name contains a blacklist keyword (letters compared without regard to
\* case), whatever the settings, preview_before_join = false included
C13_BlacklistNeverJoined ==
    \A i \in 1..Len(joins) :
        ~isBlacklisted(loadSettings(joins[i].account_id), GroupNameOf(joins[i].invite_code))

\* C14: credentials are isolated per account: the DSNs perAccountDSN gives
\* two distinct accounts differ, the handle cached for an account is built
\* from the container opened with that account's DSN, and the device in a
\* handle made for an account, cached or still held by the call that made
\* it, is a new one or one that this account stored, never one stored by
\* another account.
C14_CredentialIsolation ==
    /\ \A a \in Accounts, b \in Accounts : a # b => perAccountDSN(a) # perAccountDSN(b)
    /\ \A a \in Accounts :
          Clients[a] # NULL =>
             /\ Clients[a].cont = perAccountDSN(a)
             /\ Clients[a].dev \in {NewDevice, a}
    /\ \A t \in Threads :
          threads[t].client # NULL => threads[t].client.dev \in {NewDevice, threads[t].acc}

\* C15: over all interleavings of StartPairing and RequestPairingCode calls
\* the background Connect of the pairing is started at most once per account.
C15_PairingConnectOnce == \A a \in Accounts : connectStarts[a] <= 1

C15_Witness ==
    \E t \in Threads, u \in Threads :
       /\ threads[t].op = "StartPairing" /\ threads[t].acc = "a1"
       /\ threads[u].op = "RequestPairingCode" /\ threads[u].acc = "a1"
       /\ threads[t].pc = "lock"
       /\ threads[u].pc = "unlock"
       /\ connectStarts["a1"] = 1

\* C16: once the delete-account operation of an account (Logout, DropAccount,
\* DeleteAccount) has completed, m.Clients has no entry for the account, also
\* when other calls for the account run at the same time.
C16_NoSessionAfterDelete == \A a \in deleteDone : Clients[a] = NULL

\* C17: FetchAndSyncGroups / UpsertGroup never deletes a group row and
\* leaves enabled, risk_score and last_sent_at of every existing group
\* unchanged; an existing name is kept when the incoming name is empty; a
\* newly discovered group is inserted with enabled = 0
C17_SyncNonDestructive ==
    [][\A a \in Accounts, gmap \in GroupMaps :
          (FetchAndSyncGroups(a, gmap)
             \/ (\E g \in Groups : DOMAIN gmap = {g} /\ UpsertGroup(a, g, gmap[g])))
          => /\ groupIds \subseteq groupIds'
             /\ \A g \in groupIds :
                   /\ groups'[g].enabled = groups[g].enabled
                   /\ groups'[g].risk_score = groups[g].risk_score
                   /\ groups'[g].last_sent_at = groups[g].last_sent_at
                   /\ (g \in DOMAIN gmap /\ gmap[g] = <<>>)
                         => groups'[g].name = groups[g].name
             /\ \A g \in groupIds' \ groupIds : ~groups'[g].enabled]_vars

\* a sync has rewritten the row of an enabled group and has inserted another
C17_Witness ==
    /\ groupIds = Groups
    /\ groups["g1"].account_id = "a2"
    /\ groups["g1"].enabled
    /\ groups["g1"].name = <<"G">>
    /\ groups["g2"].name = <<"N">>
    /\ ~groups["g2"].enabled
    /\ groups["g2"].risk_score = 0

\* C18: when a group id is synced for account B while account A owns a row
\* for it, A's row keeps its account_id, enabled and risk_score (B gets a
\* row of its own)
C18_GroupsKeyedPerAccount ==
    [][\A b \in Accounts, g \in Groups, name \in IncomingNames :
          (UpsertGroup(b, g, name) /\ g \in groupIds /\ groups[g].account_id # b)
             => /\ groups'[g].account_id = groups[g].account_id
                /\ groups'[g].enabled = groups[g].enabled
                /\ groups'[g].risk_score = groups[g].risk_score]_vars

\* C19: once a logs row is inserted, none of its fields changes and the row
\* is never deleted, whatever operation follows
C19_LogsAppendOnly ==
    [][/\ Len(logs') >= Len(logs)
       /\ \A i \in 1..Len(logs) : logs'[i] = logs[i]]_vars

InSafeWindow(m) ==
    \/ (m >= 45 /\ m <= 150)
    \/ (m >= 180 /\ m <= 330)
    \/ (m >= 1290 /\ m <= 1410)

\* C21: a tick whose local (WIB) minute of the day lies outside every safe
\* window while AlwaysOn is off starts no processOneSend: no send is invoked
\* and no log row is written; a tick inside a window (bounds included) or
\* with AlwaysOn set is never skipped.
C21_SafeWindowGate ==
    [][/\ (pc = "idle" /\ ~cfg.alwaysOn /\ ~InSafeWindow(WIBMinuteOfDay(clock))) =>
             /\ pc' = "idle"
             /\ logs' = logs
             /\ tickSends' = tickSends
             /\ lastTick' \in {lastTick, "skipped"}
       /\ (cfg.alwaysOn \/ InSafeWindow(WIBMinuteOfDay(clock))) =>
             lastTick' \in {lastTick, "ran"}]_vars

C21_Witness ==
    /\ lastTick = "skipped"
    /\ ~cfg.alwaysOn
    /\ ~InSafeWindow(WIBMinuteOfDay(clock))
    /\ logs # <<>>

\* C23: one risk threshold: with SCHEDULER_RISK_THRESHOLD = T, a failure that
\* raises a group's risk_score pauses the group exactly when the new score
\* has reached T, the cutoff of the Scheduler's eligibility filter: the group
\* is disabled when the score is at or above T and keeps its enabled flag
\* when the score is below T.
C23_OneRiskThreshold ==
    [][\A g \in Groups :
          groups'[g].risk_score = groups[g].risk_score + 1 =>
             /\ groups'[g].risk_score >= cfg.riskThreshold => ~groups'[g].enabled
             /\ groups'[g].risk_score < cfg.riskThreshold =>
                   groups'[g].enabled = groups[g].enabled]_vars

\* C22: after any sequence of CreateAccount and UpdateAccount calls every
\* stored account daily_limit is in 1..1000.
C22_DailyLimitRange ==
    \A a \in accountIds : accounts[a].daily_limit >= 1 /\ accounts[a].daily_limit <= 1000


C25_FinalPartFailure ==
    [][/\ (pc = "sending" /\ Len(cur'.handed) = Len(cur.handed) + 1 /\ cur'.idx = cur.idx) =>
            /\ Len(logs') = Len(logs) + 1
            /\ SubSeq(logs', 1, Len(logs)) = logs
            /\ logs'[Len(logs')].status = "failed"
            /\ logs'[Len(logs')].account_id = cur.acc
            /\ logs'[Len(logs')].group_id = cur.grp
            /\ groups'[cur.grp].risk_score = groups[cur.grp].risk_score + 1
            /\ groups'[cur.grp].enabled =
                  IF groups'[cur.grp].risk_score >= riskThreshold
                     THEN FALSE ELSE groups[cur.grp].enabled
            /\ \A g \in Groups \ {cur.grp} : groups'[g] = groups[g]
            /\ cur'.result = "err"
            /\ pc' # "sending"
       /\ (cur.result = "err" /\ cur'.handed # <<>>) => cur'.handed = cur.handed]_vars

\* a part of a content with further parts has failed, and the failure has
\* paused the group
C25_Witness ==
    /\ cur.result = "err"
    /\ Len(cur.handed) = cur.idx + 1
    /\ Len(cur.parts) > Len(cur.handed)
    /\ groups[cur.grp].risk_score = riskThreshold
    /\ ~groups[cur.grp].enabled


\* C26: while no template is enabled, a tick invokes the Sender for at most
\* one (account, group): after the error it does not go on to another
\* account; no part is handed to the protocol, no log row is written and no
\* risk_score is raised
C26_MissingTemplateEndsTick ==
    [][templates = {} =>
          /\ Len(tickSends') <= 1
          /\ cur'.handed = <<>>
          /\ logs' = logs
          /\ \A g \in Groups : groups'[g].risk_score = groups[g].risk_score]_vars


\* C27: once Stop has closed the stop channel the Scheduler starts no
\* further Sender invocation, and a loop that is in its jitter sleep at that
\* point does nothing more than leave the sleep and return
C27_StopResponsive ==
    [][stopClosed =>
          /\ Len(tickSends') <= Len(tickSends)
          /\ pc = "sleep" => pc' \in {"sleep", "idle", "off"}]_vars

\* C28: no two loop goroutines take ticks: a goroutine beyond the first
\* exists only after the stop channel was closed or the context cancelled,
\* where all it does is return; the one loop runs a tick's send and sleep to
\* the end before it takes the next tick
C28_SendsNeverOverlap ==
    /\ (loops >= 2 => stopClosed \/ ctxDone)
    /\ (pc = "off" => loops = 0 \/ stopClosed \/ ctxDone)
    /\ (pc \in {"sending", "sleep"} => cur.acc # "" /\ loops >= 1)

\* Start has spawned a second goroutine while the first loop is inside a send
C28_Witness ==
    /\ pc = "sending"
    /\ loops = 2
    /\ running


C30_FilterDecisionOrder ==
    fltRet # "none" =>
       LET f == fltArgs.f
           disabled == ~f.enabled
           limit == fltArgs.joinsToday >= f.daily_limit
           notWhite == /\ f.whitelist_contacts # <<>>
                       /\ \A i \in 1..Len(f.whitelist_contacts) :
                             ToLower(f.whitelist_contacts[i]) # ToLower(fltArgs.senderJID)
           black == \E i \in 1..Len(f.blacklist_keywords) :
                       Contains(ToLower(fltArgs.groupName), ToLower(f.blacklist_keywords[i]))
       IN  /\ (fltRet = "auto_join_disabled") <=> disabled
           /\ (fltRet = "daily_limit_reached") <=> (~disabled /\ limit)
           /\ (fltRet = "sender_not_whitelisted") <=> (~disabled /\ ~limit /\ notWhite)
           /\ (fltRet = "keyword_blacklisted") <=>
                 (~disabled /\ ~limit /\ ~notWhite /\ black)
           /\ (fltRet = "") <=> (~disabled /\ ~limit /\ ~notWhite /\ ~black)

\* the sender passes a whitelist entry that differs from it in letter case,
\* and the call is then rejected for a keyword in another letter case
C30_Witness ==
    /\ fltRet = "keyword_blacklisted"
    /\ fltArgs.f.whitelist_contacts # <<>>
    /\ \A i \in 1..Len(fltArgs.f.whitelist_contacts) :
          fltArgs.f.whitelist_contacts[i] # fltArgs.senderJID
    /\ \A i \in 1..Len(fltArgs.f.blacklist_keywords) :
          ~Contains(fltArgs.groupName, fltArgs.f.blacklist_keywords[i])


\* C31: the result of ExtractInviteCodes holds every code that either
\* pattern matches in the text, each once, ordered by the place of the
\* code's first match
C31_ExtractAllCodes ==
    fnRet # NoResult =>
       LET found == FindAllStringSubmatch(fnArgs, groupLinkPattern, 1)
                       \o FindAllStringSubmatch(fnArgs, groupLinkPatternAlt, 1)
           codes == fnRet[1]
           FirstAt(c) == CHOOSE n \in {found[k].at : k \in 1..Len(found)} :
                            /\ \E k \in 1..Len(found) : found[k].code = c /\ found[k].at = n
                            /\ \A k \in 1..Len(found) : found[k].code = c => n <= found[k].at
       IN  /\ {codes[k] : k \in 1..Len(codes)} = {found[k].code : k \in 1..Len(found)}
           /\ \A j, k \in 1..Len(codes) : j < k =>
                 codes[j] # codes[k] /\ FirstAt(codes[j]) < FirstAt(codes[k])


\* a text with a scheme link to code a and a schemeless link to code b has
\* been searched and only a was returned
C31_MixedTextLosesCode ==
    /\ fnArgs = HttpsScheme \o LinkHost \o <<"a", " ">> \o LinkHost \o <<"b">>
    /\ fnRet = << << <<"a">> >> >>

\* C32: when HandleMessage has gone through a message with several distinct
\* valid links for an account whose filters accept every sender and group,
\* each code of the message has a joined row for that account, unless the
\* protocol call for it failed or the account had joined it before
C32_EveryLinkJoined ==
    \A p \in Procs :
        (HandleMessageReturned(p) /\ ~crashed /\ settings[pending[p].acc] = PlainSettings) =>
            LET codes == pending[p].found
            IN  \A i \in 1..Len(codes) :
                    ValidateInviteCode(codes[i]) =>
                        \E k \in 1..Len(autoJoinLogs) :
                            /\ autoJoinLogs[k].account_id = pending[p].acc
                            /\ autoJoinLogs[k].invite_code = codes[i]
                            /\ \/ autoJoinLogs[k].status \in {"joined", "failed"}
                               \/ autoJoinLogs[k].reason = "already_joined"

\* the message with two links has been handled by an otherwise idle account:
\* the first code is joined and the second is dropped with a rate_limit row
C32_SecondLinkRateLimited ==
    /\ HandleMessageReturned("p1")
    /\ pending["p1"].text = TwoLinkText
    /\ procs["p2"].pc = "idle"
    /\ Len(autoJoinLogs) = 2
    /\ autoJoinLogs[1].invite_code = CodeA /\ autoJoinLogs[1].status = "joined"
    /\ autoJoinLogs[2].invite_code = CodeB /\ autoJoinLogs[2].status = "skipped"
    /\ autoJoinLogs[2].reason = "rate_limit"

\* C33: the sent row of a text part has the preview "text-only:" followed by
\* the first 128 characters of the text that was handed to the protocol
C33_PreviewShowsSentText ==
    (fnRet # NoResult /\ fnRet[1].status = "sent") =>
        fnRet[1].preview = TextOnlyLabel \o short(fnRet[1].sent)

\* template "h {group_name}" sent to the group named Toko: the sent row's
\* preview still shows the placeholder
C33_PlaceholderInPreview ==
    /\ fnRet # NoResult
    /\ fnArgs.textOnly = <<"h", " ">> \o GroupNamePlaceholder
    /\ fnArgs.groupName = <<"T", "o", "k", "o">>
    /\ fnRet[1].status = "sent"
    /\ fnRet[1].sent = <<"h", " ", "T", "o", "k", "o">>
    /\ fnRet[1].preview = TextOnlyLabel \o <<"h", " ">> \o GroupNamePlaceholder

\* C34: the connection step fails without a Connect call on an unpaired
\* handle, returns an error for every Connect error other than the one of a
\* socket that is connected, and succeeds only when the socket is connected
C34_ConnectErrorsReturned ==
    fnRet # NoResult =>
        /\ ~fnArgs.paired => (fnRet[1].err # NoError /\ ~fnRet[1].connectCalled)
        /\ (fnArgs.paired /\ fnArgs.outcome.err \notin {NoError, ErrAlreadyConnected})
               => fnRet[1].err # NoError
        /\ fnRet[1].err = NoError => fnArgs.outcome.conn

\* Connect failed with "socket is not connected" on a paired handle and
\* ConnectIfPaired returned nil
C34_NotConnectedSwallowed ==
    /\ fnRet # NoResult
    /\ fnArgs.paired
    /\ fnArgs.outcome = [err |-> ErrorString(<<"s", "o", "c", "k", "e", "t", " ", "i", "s", " ", "n", "o", "t", " ", "c", "o", "n", "n", "e", "c", "t", "e", "d">>), conn |-> FALSE]
    /\ fnRet[1].op = "ConnectIfPaired"
    /\ fnRet[1].err = NoError

\* C35: an invocation of ProcessInviteCode passes each of its positions at
\* most once, so it makes at most one join call, and the step that appends
\* its row takes it past every row-writing position, so it appends at most
\* one row; a code whose normalized form fails validation ends at once with
\* one skipped / invalid_invite_code row, whatever the settings are
C35_NoRetries ==
    [][\A p \in Procs :
          /\ procs'[p] # procs[p] => StepRank(procs'[p].pc) > StepRank(procs[p].pc)
          /\ Len(autoJoinLogs') <= Len(autoJoinLogs) + 1
          /\ Len(autoJoinLogs') > Len(autoJoinLogs) =>
                \E q \in Procs : /\ procs'[q] # procs[q]
                                 /\ StepRank(procs[q].pc) < StepRank("stamp")
                                 /\ StepRank(procs'[q].pc) >= StepRank("stamp")
          /\ joins' # joins =>
                \E q \in Procs : procs[q].pc = "join" /\ procs'[q] # procs[q]
          /\ (/\ procs[p].pc = "start"
              /\ procs'[p] # procs[p]
              /\ ~ValidateInviteCode(NormalizeInviteCode(procs[p].code))) =>
                /\ procs'[p].pc = "done"
                /\ joins' = joins
                /\ Len(autoJoinLogs') = Len(autoJoinLogs) + 1
                /\ SubSeq(autoJoinLogs', 1, Len(autoJoinLogs)) = autoJoinLogs
                /\ autoJoinLogs'[Len(autoJoinLogs')].status = "skipped"
                /\ autoJoinLogs'[Len(autoJoinLogs')].reason = "invalid_invite_code"
                /\ autoJoinLogs'[Len(autoJoinLogs')].account_id = procs[p].acc]_vars

\* two invocations have returned: one for a code of 31 characters, skipped
\* as invalid, and one whose single join call failed
C35_InvalidAndFailedOnce ==
    /\ procs["p1"].pc = "done" /\ procs["p2"].pc = "done"
    /\ joins = <<>>
    /\ Len(autoJoinLogs) = 2
    /\ \E i, j \in 1..2 :
          /\ autoJoinLogs[i].reason = "invalid_invite_code"
          /\ Len(autoJoinLogs[i].invite_code) > MaxCodeLen
          /\ autoJoinLogs[j].status = "failed"
          /\ autoJoinLogs[j].reason = "join"
          /\ autoJoinLogs[j].invite_code = CodeA

\* C36: a handle is stored in Manager.Clients only when the account has none
\* cached (so every caller gets the one cached handle), and no thread reads
\* or writes the Manager's maps while another thread is writing them
C36_SharedMapsProtected ==
    [][/\ \A t \in Threads :
             (threads[t].pc = "store" /\ threads'[t].pc = "have") =>
                 Clients[threads[t].acc] = NULL
       /\ ~\E t \in Threads, u \in Threads :
             /\ t # u
             /\ threads'[t].pc \in {"open", "store", "drop"}
             /\ threads'[u].pc \in {"ensure", "open", "store", "drop"}]_vars

\* two callers of ensureClient for a1 have both found no cached handle and
\* hold one handle each, about to store it
C36_TwoHandlesForOneAccount ==
    /\ ~crashed
    /\ threads["t1"].pc = "store" /\ threads["t2"].pc = "store"
    /\ threads["t1"].acc = "a1" /\ threads["t2"].acc = "a1"
    /\ threads["t1"].client # NULL /\ threads["t2"].client # NULL

\* C37: when a Sender invocation returns after it started sending parts, it
\* returns nil if every part was handed to the protocol successfully, and if
\* it returns an error it has just written one failed row and raised the
\* group's risk_score by 1
C37_ErrorMeansFailedRow ==
    [][(pc = "sending" /\ cur.result = "none" /\ cur'.result # "none") =>
          /\ cur'.idx = Len(cur.parts) => cur'.result = "ok"
          /\ cur'.result = "err" =>
                /\ Len(logs') = Len(logs) + 1
                /\ logs'[Len(logs')].status = "failed"
                /\ groups'[cur.grp].risk_score = groups[cur.grp].risk_score + 1]_vars

\* every part of the template was delivered and logged as sent, the context
\* expired in the pacing sleep after the last one: the invocation returned an
\* error with no failed row and no risk bump
C37_DeliveredButError ==
    /\ cur.result = "err"
    /\ Len(cur.parts) > 0
    /\ cur.idx = Len(cur.parts)
    /\ Len(logs) >= Len(cur.parts)
    /\ \A i \in 1..Len(logs) : logs[i].status = "sent"
    /\ groups[cur.grp].risk_score = 0

\* C38: whenever the invocation started by handleManualJoin is about to make
\* its preview call or its join call, its context has not been cancelled
C38_ManualJoinContextLive ==
    \A p \in Procs :
        (/\ procs[p].sharedBy = Manual
         /\ \/ procs[p].pc = "join"
            \/ procs[p].pc = "preview" /\ loadSettings(procs[p].acc).preview_before_join)
            => procs[p].ctx # "cancelled"

\* the handler has answered "processing" and returned before the goroutine
\* reached its join call: the call will run with a cancelled context
C38_JoinCallAfterHandlerReturned ==
    \E p \in Procs :
        /\ procs[p].sharedBy = Manual
        /\ procs[p].pc = "join"
        /\ procs[p].ctx = "cancelled"
        /\ ~crashed

\* C39: when a pairing call leaves the start-connect decision for an
\* unpaired handle that has no connection, a background Connect has been
\* started on that handle, so the call waits for its code on a connecting one
C39_PairingConnectsHandle ==
    [][\A t \in Threads :
          (/\ threads[t].pc = "locked"
           /\ threads'[t].pc = "unlock"
           /\ Clients[threads[t].acc] # NULL
           /\ Clients[threads[t].acc].dev = NewDevice
           /\ ~Clients[threads[t].acc].conn)
             => Clients'[threads[t].acc].conn]_vars

\* a1 was paired once and logged out (its handle dropped); the next pairing
\* call got a new handle, found pairingActive still set and is waiting for
\* its code on a handle nobody connects
C39_WaitsOnUnconnectedHandle ==
    /\ ~crashed
    /\ threads["t2"].op = "RequestPairingCode"
    /\ threads["t2"].pc = "unlock"
    /\ threads["t2"].acc = "a1"
    /\ threads["t1"].pc = "idle"
    /\ pairingActive["a1"]
    /\ connectStarts["a1"] = 1
    /\ deviceStore = <<>>
    /\ Clients["a1"] # NULL
    /\ Clients["a1"].dev = NewDevice
    /\ ~Clients["a1"].conn

\* C40: Stop never closes the stop channel a second time (no panic), a
\* goroutine is spawned only by a Start that found running clear and whose
\* loop can take ticks (the stop channel is open), and a second goroutine
\* exists only where all it does is return
C40_LifecycleSafe ==
    [][/\ ~crashed'
       /\ loops' > loops => (~running /\ ~stopClosed)
       /\ loops' >= 2 => (stopClosed' \/ ctxDone')]_vars

\* Stop, Start, Stop: the second Stop found running set again and closed the
\* closed channel
C40_SecondStopPanics ==
    /\ crashed
    /\ stopClosed
    /\ running
    /\ ~ctxDone

====
